---- MODULE Spec2Model ----
(***************************************************************************)
(* Model of ecomista.utils: the FieldMapper orchestrator (field_mapper.py) *)
(* and the transformer registry with the transformers Direct, Lookup,      *)
(* Cast, Default, Split, Map, Regex and Conditional (transformers.py).     *)
(*                                                                         *)
(* Python objects live in a heap: a dict or list is an address, so that    *)
(* two references to one container are the same object, as in Python.      *)
(* A Python str is a sequence of one-character strings, so that            *)
(* path.split("."), key.isdigit() and int(key) are computed, not assumed.  *)
(***************************************************************************)
EXTENDS Integers, Sequences, FiniteSets, TLC

VARIABLES
    pc,            \* position of the modelled call
    ctorArg,       \* the `mappings` argument FieldMapper.__init__ is given
    mappings,      \* self.mappings
    _transformers,      \* TransformerRegistry._transformers (its names)
    srcId,         \* which source document of SourcePool the call is given
    source_data,        \* source_data
    heap,          \* all dicts and lists, by address
    result,        \* transform()'s local `result`
    child_mappings, \* transform()'s local `child_mappings` (positions in mappings)
    ruleIdx,       \* loop position in transform()'s two for loops
    source_array,  \* _apply_child_mapping's local `source_array`
    target_array,  \* _apply_child_mapping's local `target_array`
    idx,           \* enumerate() position in _apply_child_mapping
    err,           \* the exception that escaped, "none" if none
    calls,         \* history: the transformer invocations, in order
    pathOp,        \* the path operation last applied (path specification)
    parked,        \* the locals of a second transform() call that is not running
    registered     \* history: the TransformerRegistry.register calls, in order

vars == <<pc, ctorArg, mappings, _transformers, srcId, source_data, heap, result,
          child_mappings, ruleIdx, source_array, target_array, idx, err, calls, pathOp,
          parked, registered>>

-----------------------------------------------------------------------------
(* Bounds of the model.                                                    *)

\* longest mapping specification
MaxRules == 3
\* number of set operations of the path specification
MaxPathOps == 2
\* depth to which two documents are compared
MaxDepth == 6
\* number of register calls of the registry specification
MaxRegisters == 3
\* number of rules of a FieldMapper of the transformer specification
MaxKindRules == 2

-----------------------------------------------------------------------------
(* Python values.  A value is None, a str, an int, a bool or a reference   *)
(* to a dict or list of the heap.  One record shape for all of them.       *)

NoneV == [t |-> "none", s |-> <<>>, a |-> 0]
StrV(s) == [t |-> "str", s |-> s, a |-> 0]
IntV(n) == [t |-> "int", s |-> <<>>, a |-> n]
RefV(a) == [t |-> "ref", s |-> <<>>, a |-> a]
\* True and False
BoolV(b) == [t |-> "bool", s |-> <<>>, a |-> IF b THEN 1 ELSE 0]

EmptyMap == [x \in {} |-> NoneV]
EmptyDict == [k |-> "dict", m |-> EmptyMap, l |-> <<>>]
EmptyList == [k |-> "list", m |-> EmptyMap, l |-> <<>>]
DictObj(m) == [k |-> "dict", m |-> m, l |-> <<>>]
ListObj(l) == [k |-> "list", m |-> EmptyMap, l |-> l]

\* d[key] = v on a dict's entries
Put(m, key, v) == [x \in (DOMAIN m) \cup {key} |-> IF x = key THEN v ELSE m[x]]

IsDict(h, v) == v.t = "ref" /\ h[v.a].k = "dict"
IsList(h, v) == v.t = "ref" /\ h[v.a].k = "list"

\* Python truthiness of a value (`not data`)
Truthy(h, v) ==
    CASE v.t = "none" -> FALSE
      [] v.t = "str" -> v.s # <<>>
      [] v.t = "int" -> v.a # 0
      [] v.t = "bool" -> v.a # 0
      [] v.t = "ref" -> IF h[v.a].k = "dict" THEN DOMAIN h[v.a].m # {}
                        ELSE h[v.a].l # <<>>

\* len(x) where defined: -1 stands for the TypeError of len(None), len(int)
PyLen(h, v) ==
    CASE v.t = "str" -> Len(v.s)
      [] v.t = "ref" -> IF h[v.a].k = "dict" THEN Cardinality(DOMAIN h[v.a].m)
                        ELSE Len(h[v.a].l)
      [] OTHER -> -1

-----------------------------------------------------------------------------
(* str operations used on paths.                                           *)

Digits == {"0", "1", "2", "3", "4", "5", "6", "7", "8", "9"}

DigitVal(c) ==
    CASE c = "0" -> 0 [] c = "1" -> 1 [] c = "2" -> 2 [] c = "3" -> 3
      [] c = "4" -> 4 [] c = "5" -> 5 [] c = "6" -> 6 [] c = "7" -> 7
      [] c = "8" -> 8 [] c = "9" -> 9

\* The characters str.isdigit() accepts and int() rejects, such as the
\* superscript two (U+00B2), written "^2" here as one character.
OtherDigits == {"^2"}

\* key.isdigit()
IsDigit(key) == key # <<>> /\ \A i \in 1..Len(key) : key[i] \in Digits \cup OtherDigits

\* int(key) returns: the key is made of decimal digits.  For a key that
\* isdigit() accepts and that holds another digit, int(key) raises ValueError.
IsDecimal(key) == key # <<>> /\ \A i \in 1..Len(key) : key[i] \in Digits

\* int(key), for a key of digits
RECURSIVE ToInt(_)
ToInt(key) ==
    IF key = <<>> THEN 0
    ELSE 10 * ToInt(SubSeq(key, 1, Len(key) - 1)) + DigitVal(key[Len(key)])

\* path.split("."): cur is the segment being read, acc the segments read
RECURSIVE SplitFrom(_, _, _, _)
SplitFrom(path, i, cur, acc) ==
    IF i > Len(path) THEN Append(acc, cur)
    ELSE IF path[i] = "." THEN SplitFrom(path, i + 1, <<>>, Append(acc, cur))
    ELSE SplitFrom(path, i + 1, Append(cur, path[i]), acc)

Split(path) == SplitFrom(path, 1, <<>>, <<>>)

-----------------------------------------------------------------------------
(* FieldMapper._get_nested_value                                           *)

\* the loop of lines 221-232 from segment i on: the value returned (v) or
\* the exception that escaped (err), the ValueError of int(key)
RECURSIVE GetWalk(_, _, _, _)
GetWalk(h, cur, keys, i) ==
    IF i > Len(keys) THEN [v |-> cur, err |-> "none"]
    ELSE LET key == keys[i]
             nxt == IF IsDict(h, cur)
                    THEN (IF key \in DOMAIN h[cur.a].m THEN h[cur.a].m[key] ELSE NoneV)
                    ELSE IF IsList(h, cur) /\ IsDigit(key)
                    THEN (IF ToInt(key) < Len(h[cur.a].l)
                          THEN h[cur.a].l[ToInt(key) + 1] ELSE NoneV)
                    ELSE NoneV
         IN IF IsList(h, cur) /\ IsDigit(key) /\ ~IsDecimal(key)
            THEN [v |-> NoneV, err |-> "ValueError"]
            ELSE IF nxt = NoneV THEN [v |-> NoneV, err |-> "none"]
            ELSE GetWalk(h, nxt, keys, i + 1)

\* _get_nested_value(data, path) with its outcome
GetOutcome(h, data, path) ==
    IF path = <<>> \/ ~Truthy(h, data) THEN [v |-> NoneV, err |-> "none"]
    ELSE GetWalk(h, data, Split(path), 1)

\* the value _get_nested_value returns (None when it raises), and the
\* exception it raises
_get_nested_value(h, data, path) == GetOutcome(h, data, path).v
GetErr(h, data, path) == GetOutcome(h, data, path).err

-----------------------------------------------------------------------------
(* FieldMapper._set_nested_value.  The result is the heap after the call   *)
(* and the exception that escaped it; what was written before an           *)
(* exception stays written.                                                *)

\* mutant of GrowList: the list is filled with None
RECURSIVE GrowListNone(_, _, _)
GrowListNone(h, a, i) ==
    IF Len(h[a].l) > i THEN h
    ELSE GrowListNone([h EXCEPT ![a].l = Append(@, NoneV)], a, i)

\* while len(current) <= idx: current.append({}); each {} is a new dict
RECURSIVE GrowList(_, _, _)
GrowList(h, a, i) ==
    IF Len(h[a].l) > i THEN h
    ELSE LET h1 == Append(h, EmptyDict)
         IN GrowList([h1 EXCEPT ![a].l = Append(@, RefV(Len(h1)))], a, i)

\* mutant of SetFinal: a key that is already set keeps its first value
SetFinalKeepFirst(h, cur, key, value) ==
    IF IsList(h, cur) /\ IsDigit(key)
    THEN (IF ~IsDecimal(key) THEN [h |-> h, err |-> "ValueError"]
          ELSE LET h1 == GrowList(h, cur.a, ToInt(key))
               IN [h |-> [h1 EXCEPT ![cur.a].l[ToInt(key) + 1] = value], err |-> "none"])
    ELSE IF IsDict(h, cur)
    THEN [h |-> IF key \in DOMAIN h[cur.a].m THEN h
                ELSE [h EXCEPT ![cur.a].m = Put(@, key, value)], err |-> "none"]
    ELSE [h |-> h, err |-> "TypeError"]

\* lines 261-268: the final segment
SetFinal(h, cur, key, value) ==
    IF IsList(h, cur) /\ IsDigit(key)
    THEN (IF ~IsDecimal(key) THEN [h |-> h, err |-> "ValueError"]
          ELSE LET h1 == GrowList(h, cur.a, ToInt(key))
               IN [h |-> [h1 EXCEPT ![cur.a].l[ToInt(key) + 1] = value], err |-> "none"])
    ELSE IF IsDict(h, cur)
    THEN [h |-> [h EXCEPT ![cur.a].m = Put(@, key, value)], err |-> "none"]
    \* a list with a str index, or item assignment on a str, an int or None
    ELSE [h |-> h, err |-> "TypeError"]

\* lines 251-259: one round of the loop over keys[:-1].  On a list, a str,
\* an int or None, `key not in current` or the subscript raises TypeError.
RECURSIVE SetWalk(_, _, _, _, _)
SetWalk(h, cur, keys, i, value) ==
    IF i >= Len(keys) THEN SetFinal(h, cur, keys[i], value)
    ELSE IF ~IsDict(h, cur) THEN [h |-> h, err |-> "TypeError"]
    ELSE LET key == keys[i]
         IN IF key \notin DOMAIN h[cur.a].m
            THEN LET h1 == Append(h, IF IsDigit(keys[i + 1]) THEN EmptyList ELSE EmptyDict)
                     new == RefV(Len(h1))
                     h2 == [h1 EXCEPT ![cur.a].m = Put(@, key, new)]
                 IN SetWalk(h2, new, keys, i + 1, value)
            ELSE SetWalk(h, h[cur.a].m[key], keys, i + 1, value)

\* mutant of _set_nested_value: without the check of lines 245-246
\* ("".split(".") is [""])
_set_nested_value_unchecked(h, data, path, value) ==
    SetWalk(h, data, Split(path), 1, value)

_set_nested_value(h, data, path, value) ==
    IF path = <<>> THEN [h |-> h, err |-> "none"]
    ELSE SetWalk(h, data, Split(path), 1, value)

-----------------------------------------------------------------------------
(* FieldMapper._parse_config.  A transform_config is None (CfgNone) or a   *)
(* text; json.loads is tabulated on the texts the rules use.               *)

CfgNone == "None"

\* a config that is a dict: flags are the keys whose value is true, m the
\* other entries
CfgObj(flags, m) == [k |-> "dict", flags |-> flags, m |-> m]
CfgDict(flags) == CfgObj(flags, EmptyMap)
CfgOther(k) == [k |-> k, flags |-> {}, m |-> EmptyMap]

\* json.loads(text): ok is FALSE for a JSONDecodeError
json_loads(text) ==
    CASE text = "{}" -> [ok |-> TRUE, v |-> CfgDict({})]
      [] text = "{\"upper\": true}" -> [ok |-> TRUE, v |-> CfgDict({"upper"})]
      [] text = "{\"strip\": true, \"lower\": true}" ->
             [ok |-> TRUE, v |-> CfgDict({"strip", "lower"})]
      [] text = "[1]" -> [ok |-> TRUE, v |-> CfgOther("list")]
      [] text = "null" -> [ok |-> TRUE, v |-> CfgOther("none")]
      [] text = "5" -> [ok |-> TRUE, v |-> CfgOther("int")]
      [] text = "{\"doctype\": \"Customer\"}" ->
             [ok |-> TRUE,
              v |-> CfgObj({},
                  ("doctype" :> StrV(<<"C", "u", "s", "t", "o", "m", "e", "r">>)))]
      [] text = "{\"doctype\": \"Customer\", \"create_if_missing\": true}" ->
             [ok |-> TRUE,
              v |-> CfgObj({"create_if_missing"},
                  ("doctype" :> StrV(<<"C", "u", "s", "t", "o", "m", "e", "r">>)))]
      [] text = "{\"value\": \"V\"}" ->
             [ok |-> TRUE,
              v |-> CfgObj({},
                  ("value" :> StrV(<<"V">>)))]
      [] text = "{\"condition\": \"True\", \"value\": \"V\"}" ->
             [ok |-> TRUE,
              v |-> CfgObj({},
                  ("condition" :> StrV(<<"T", "r", "u", "e">>))
                  @@ ("value" :> StrV(<<"V">>)))]
      [] text = "{\"condition\": \"False\", \"value\": \"V\"}" ->
             [ok |-> TRUE,
              v |-> CfgObj({},
                  ("condition" :> StrV(<<"F", "a", "l", "s", "e">>))
                  @@ ("value" :> StrV(<<"V">>)))]
      [] text = "{\"condition\": \"1/0\", \"field\": \"m.b\"}" ->
             [ok |-> TRUE,
              v |-> CfgObj({},
                  ("condition" :> StrV(<<"1", "/", "0">>))
                  @@ ("field" :> StrV(<<"m", ".", "b">>)))]
      [] text = "{\"condition\": \"len(value) > 0\", \"expression\": \"1/0\"}" ->
             [ok |-> TRUE,
              v |-> CfgObj({},
                  ("condition" :> StrV(<<"l", "e", "n", "(", "v", "a", "l", "u", "e", ")",
                          " ", ">", " ", "0">>))
                  @@ ("expression" :> StrV(<<"1", "/", "0">>)))]
      [] text = "{\"condition\": \"value\", \"field\": \"m.b\"}" ->
             [ok |-> TRUE,
              v |-> CfgObj({},
                  ("condition" :> StrV(<<"v", "a", "l", "u", "e">>))
                  @@ ("field" :> StrV(<<"m", ".", "b">>)))]
      [] text = "{\"condition\": \"True\", \"expression\": \"value\"}" ->
             [ok |-> TRUE,
              v |-> CfgObj({},
                  ("condition" :> StrV(<<"T", "r", "u", "e">>))
                  @@ ("expression" :> StrV(<<"v", "a", "l", "u", "e">>)))]
      [] text = "{\"condition\": \"True\"}" ->
             [ok |-> TRUE,
              v |-> CfgObj({},
                  ("condition" :> StrV(<<"T", "r", "u", "e">>)))]
      [] text = "{\"condition\": \"value == 'x 2'\", \"expression\": \"'B'\"}" ->
             [ok |-> TRUE,
              v |-> CfgObj({},
                  ("condition" :> StrV(<<"v", "a", "l", "u", "e", " ", "=", "=", " ", "'",
                          "x", " ", "2", "'">>))
                  @@ ("expression" :> StrV(<<"'", "B", "'">>)))]
      [] text = "{\"conditions\": [{\"if\": \"False\", \"then\": \"A\"}, {\"if\": \"value == 'PAID'\", \"then\": \"B\"}, {\"if\": \"True\", \"then\": \"C\"}], \"else\": \"E\"}" ->
             [ok |-> TRUE,
              v |-> CfgObj({},
                  ("conditions" :> <<("if" :> StrV(<<"F", "a", "l", "s",
                          "e">>)) @@ ("then" :> StrV(<<"A">>)),
                       ("if" :> StrV(<<"v", "a", "l", "u", "e", " ", "=", "=", " ", "'", "P",
                               "A", "I", "D", "'">>)) @@ ("then" :> StrV(<<"B">>)),
                       ("if" :> StrV(<<"T", "r", "u", "e">>)) @@ ("then" :> StrV(<<"C">>))>>)
                  @@ ("else" :> StrV(<<"E">>)))]
      [] text = "{\"conditions\": [{\"if\": \"True\", \"then\": \"1/0\"}, {\"if\": \"True\", \"then\": \"'B'\"}], \"eval_then\": true, \"else\": \"E\"}" ->
             [ok |-> TRUE,
              v |-> CfgObj({"eval_then"},
                  ("conditions" :> <<("if" :> StrV(<<"T", "r", "u",
                          "e">>)) @@ ("then" :> StrV(<<"1", "/", "0">>)),
                       ("if" :> StrV(<<"T", "r", "u", "e">>)) @@ ("then" :> StrV(<<"'", "B",
                               "'">>))>>)
                  @@ ("else" :> StrV(<<"E">>)))]
      [] text = "{\"conditions\": [{\"if\": \"1/0\", \"then\": \"A\"}, {\"then\": \"X\"}]}" ->
             [ok |-> TRUE,
              v |-> CfgObj({},
                  ("conditions" :> <<("if" :> StrV(<<"1", "/", "0">>)) @@ ("then" :> StrV(<<"A">>)),
                       ("then" :> StrV(<<"X">>))>>))]
      [] text = "{\"conditions\": [{\"if\": \"len(value) > 0\", \"then\": \"A\"}], \"else\": null}" ->
             [ok |-> TRUE,
              v |-> CfgObj({},
                  ("conditions" :> <<("if" :> StrV(<<"l", "e", "n", "(", "v", "a", "l", "u",
                          "e", ")", " ", ">", " ", "0">>)) @@ ("then" :> StrV(<<"A">>))>>)
                  @@ ("else" :> NoneV))]
      [] text = "{\"conditions\": [{\"if\": \"value\", \"then\": \"'A'\"}, {\"if\": \"True\", \"then\": \"'B'\"}], \"eval_then\": true}" ->
             [ok |-> TRUE,
              v |-> CfgObj({"eval_then"},
                  ("conditions" :> <<("if" :> StrV(<<"v", "a", "l", "u",
                          "e">>)) @@ ("then" :> StrV(<<"'", "A", "'">>)),
                       ("if" :> StrV(<<"T", "r", "u", "e">>)) @@ ("then" :> StrV(<<"'", "B",
                               "'">>))>>))]
      [] text = "{\"type\": \"int\"}" ->
             [ok |-> TRUE,
              v |-> CfgObj({},
                  ("type" :> StrV(<<"i", "n", "t">>)))]
      [] text = "{\"type\": \"bool\"}" ->
             [ok |-> TRUE,
              v |-> CfgObj({},
                  ("type" :> StrV(<<"b", "o", "o", "l">>)))]
      [] text = "{\"type\": \"list\", \"separator\": \"A\"}" ->
             [ok |-> TRUE,
              v |-> CfgObj({},
                  ("type" :> StrV(<<"l", "i", "s", "t">>))
                  @@ ("separator" :> StrV(<<"A">>)))]
      [] text = "{\"type\": \"weird\"}" ->
             [ok |-> TRUE,
              v |-> CfgObj({},
                  ("type" :> StrV(<<"w", "e", "i", "r", "d">>)))]
      [] text = "{\"index\": 1}" ->
             [ok |-> TRUE,
              v |-> CfgObj({},
                  ("index" :> IntV(1)))]
      [] text = "{\"separator\": \"A\", \"index\": 5}" ->
             [ok |-> TRUE,
              v |-> CfgObj({},
                  ("separator" :> StrV(<<"A">>))
                  @@ ("index" :> IntV(5)))]
      [] text = "{\"separator\": \"AI\", \"join\": true}" ->
             [ok |-> TRUE,
              v |-> CfgObj({"join"},
                  ("separator" :> StrV(<<"A", "I">>)))]
      [] text = "{\"pattern\": \"\\\\d+\"}" ->
             [ok |-> TRUE,
              v |-> CfgObj({},
                  ("pattern" :> StrV(<<"\\", "d", "+">>)))]
      [] text = "{\"pattern\": \"(\"}" ->
             [ok |-> TRUE,
              v |-> CfgObj({},
                  ("pattern" :> StrV(<<"(">>)))]
      [] text = "{\"pattern\": \"\\\\d+\", \"operation\": \"sub\", \"replacement\": \"N\"}" ->
             [ok |-> TRUE,
              v |-> CfgObj({},
                  ("pattern" :> StrV(<<"\\", "d", "+">>))
                  @@ ("operation" :> StrV(<<"s", "u", "b">>))
                  @@ ("replacement" :> StrV(<<"N">>)))]
      [] text = "{\"pattern\": \"\\\\d+\", \"operation\": \"match\"}" ->
             [ok |-> TRUE,
              v |-> CfgObj({},
                  ("pattern" :> StrV(<<"\\", "d", "+">>))
                  @@ ("operation" :> StrV(<<"m", "a", "t", "c", "h">>)))]
      [] text = "{\"mapping\": {\"paid\": \"Paid\", \"pending\": \"Draft\"}, \"case_insensitive\": true}" ->
             [ok |-> TRUE,
              v |-> CfgObj({"case_insensitive"},
                  ("mapping" :> <<<<<<"p", "a", "i", "d">>, StrV(<<"P", "a", "i",
                          "d">>)>>, <<<<"p", "e", "n", "d", "i", "n", "g">>, StrV(<<"D", "r",
                                  "a", "f", "t">>)>>>>))]
      [] text = "{\"mapping\": {\"paid\": \"Paid\", \"pending\": \"Draft\"}}" ->
             [ok |-> TRUE,
              v |-> CfgObj({},
                  ("mapping" :> <<<<<<"p", "a", "i", "d">>, StrV(<<"P", "a", "i",
                          "d">>)>>, <<<<"p", "e", "n", "d", "i", "n", "g">>, StrV(<<"D", "r",
                                  "a", "f", "t">>)>>>>))]
      [] text = "{\"mapping\": {\"x 2\": \"X\", \"\": \"E\"}}" ->
             [ok |-> TRUE,
              v |-> CfgObj({},
                  ("mapping" :> <<<<<<"x", " ", "2">>, StrV(<<"X">>)>>, <<<<>>, StrV(<<"E">>)>>>>))]
      [] text = "{\"mapping\": {\"5\": \"five\"}}" ->
             [ok |-> TRUE,
              v |-> CfgObj({},
                  ("mapping" :> <<<<<<"5">>, StrV(<<"f", "i", "v", "e">>)>>>>))]
      [] text = "{\"mapping\": {\"PAID\": \"1\", \"Paid\": \"2\"}, \"case_insensitive\": true}" ->
             [ok |-> TRUE,
              v |-> CfgObj({"case_insensitive"},
                  ("mapping" :> <<<<<<"P", "A", "I", "D">>, StrV(<<"1">>)>>, <<<<"P", "a",
                          "i", "d">>, StrV(<<"2">>)>>>>))]
      [] text = "{\"field\": \"b\"}" ->
             [ok |-> TRUE,
              v |-> CfgObj({},
                  ("field" :> StrV(<<"b">>)))]
      [] text = "{\"separator\": \"\"}" ->
             [ok |-> TRUE,
              v |-> CfgObj({},
                  ("separator" :> StrV(<<>>)))]
      [] text = "{\"separator\": 5}" ->
             [ok |-> TRUE,
              v |-> CfgObj({},
                  ("separator" :> IntV(5)))]
      [] text = "{\"separator\": \"A\", \"index\": \"x\"}" ->
             [ok |-> TRUE,
              v |-> CfgObj({},
                  ("separator" :> StrV(<<"A">>))
                  @@ ("index" :> StrV(<<"x">>)))]
      [] text = "{\"pattern\": \"\\\\d+\", \"group\": 1}" ->
             [ok |-> TRUE,
              v |-> CfgObj({},
                  ("pattern" :> StrV(<<"\\", "d", "+">>))
                  @@ ("group" :> IntV(1)))]
      [] OTHER -> [ok |-> FALSE, v |-> CfgDict({})]

_parse_config(config) ==
    IF config = CfgNone \/ config = "" THEN CfgDict({})
    ELSE IF json_loads(config).ok THEN json_loads(config).v
    ELSE CfgDict({})

-----------------------------------------------------------------------------
(* transformers.py: the registry                                           *)

\* what the @register_transformer decorators install at import: the
\* registry maps a name to a function, here the function's name
Builtins ==
    ("Direct" :> "transform_direct") @@ ("Lookup" :> "transform_lookup")
    @@ ("Formula" :> "transform_formula") @@ ("Cast" :> "transform_cast")
    @@ ("Default" :> "transform_default") @@ ("Concat" :> "transform_concat")
    @@ ("Split" :> "transform_split") @@ ("Map" :> "transform_map")
    @@ ("Regex" :> "transform_regex") @@ ("Conditional" :> "transform_conditional")

\* TransformerRegistry.get: cls._transformers.get(name)
RegistryGet(reg, name) == IF name \in DOMAIN reg THEN reg[name] ELSE "None"

\* get_transformer(name): frappe.throw for a name the registry does not hold
get_transformer(reg, name) ==
    [func |-> RegistryGet(reg, name),
     err |-> IF RegistryGet(reg, name) = "None" THEN "ValidationError" ELSE "none"]

-----------------------------------------------------------------------------
(* transformers.py: the built-in transformers                              *)

LowerCase ==
    <<"a", "b", "c", "d", "e", "f", "g", "h", "i", "j", "k", "l", "m",
      "n", "o", "p", "q", "r", "s", "t", "u", "v", "w", "x", "y", "z">>
UpperCase ==
    <<"A", "B", "C", "D", "E", "F", "G", "H", "I", "J", "K", "L", "M",
      "N", "O", "P", "Q", "R", "S", "T", "U", "V", "W", "X", "Y", "Z">>

\* the place of a letter in an alphabet, 0 for another character
LetterOf(c, alphabet) ==
    IF \E i \in 1..Len(alphabet) : alphabet[i] = c
    THEN CHOOSE i \in 1..Len(alphabet) : alphabet[i] = c
    ELSE 0

LowerChar(c) == IF LetterOf(c, UpperCase) > 0 THEN LowerCase[LetterOf(c, UpperCase)] ELSE c
UpperChar(c) == IF LetterOf(c, LowerCase) > 0 THEN UpperCase[LetterOf(c, LowerCase)] ELSE c
StrLower(s) == [i \in 1..Len(s) |-> LowerChar(s[i])]
StrUpper(s) == [i \in 1..Len(s) |-> UpperChar(s[i])]

RECURSIVE StrStrip(_)
StrStrip(s) ==
    IF s = <<>> THEN s
    ELSE IF s[1] = " " THEN StrStrip(Tail(s))
    ELSE IF s[Len(s)] = " " THEN StrStrip(SubSeq(s, 1, Len(s) - 1))
    ELSE s

\* transform_direct; config.get on a config that is no dict raises AttributeError
transform_direct(value, config, default) ==
    IF value = NoneV \/ value = StrV(<<>>) THEN [out |-> default, err |-> "none"]
    ELSE IF value.t # "str" THEN [out |-> value, err |-> "none"]
    ELSE IF config.k # "dict" THEN [out |-> NoneV, err |-> "AttributeError"]
    ELSE LET s1 == IF "strip" \in config.flags THEN StrStrip(value.s) ELSE value.s
             s2 == IF "lower" \in config.flags THEN StrLower(s1) ELSE s1
             s3 == IF "upper" \in config.flags THEN StrUpper(s2) ELSE s2
         IN [out |-> StrV(s3), err |-> "none"]

-----------------------------------------------------------------------------
(* frappe.utils.cstr and frappe.utils.cint, str.split(separator).          *)

DigitChars == <<"0", "1", "2", "3", "4", "5", "6", "7", "8", "9">>

\* str(n) of an int
RECURSIVE IntToStr(_)
IntToStr(n) ==
    IF n < 0 THEN <<"-">> \o IntToStr(0 - n)
    ELSE IF n < 10 THEN <<DigitChars[n + 1]>>
    ELSE Append(IntToStr(n \div 10), DigitChars[(n % 10) + 1])

\* cstr(value): a str as it is, "" for None, str(value) otherwise.  The
\* str() of a dict or list is not modelled: no rule hands one to cstr.
cstr(v) ==
    CASE v.t = "str" -> v.s
      [] v.t = "none" -> <<>>
      [] v.t = "int" -> IntToStr(v.a)
      [] v.t = "bool" -> IF v.a = 1 THEN <<"T", "r", "u", "e">> ELSE <<"F", "a", "l", "s", "e">>

\* the text of a decimal number: digits, with a sign and a fraction or not
IsNumber(s) ==
    LET body == IF s # <<>> /\ s[1] \in {"+", "-"} THEN Tail(s) ELSE s
        dot == LetterOf(".", body)
    IN IF dot = 0 THEN IsDecimal(body)
       ELSE /\ Len(body) > 1
            /\ \A i \in (1..Len(body)) \ {dot} : body[i] \in Digits

\* int(float(s)) of such a text: the fraction is cut off
NumberOf(s) ==
    LET neg == s[1] = "-"
        body == IF s[1] \in {"+", "-"} THEN Tail(s) ELSE s
        dot == LetterOf(".", body)
        whole == IF dot = 0 THEN body ELSE SubSeq(body, 1, dot - 1)
    IN IF neg THEN 0 - ToInt(whole) ELSE ToInt(whole)

\* cint(value): int(float(value)), 0 when that raises.  A str is read as a
\* decimal number with blanks around it; exponents are not modelled.
cint(v) ==
    CASE v.t = "int" -> v.a
      [] v.t = "bool" -> v.a
      [] v.t = "str" -> IF IsNumber(StrStrip(v.s)) THEN NumberOf(StrStrip(v.s)) ELSE 0
      [] OTHER -> 0

\* s.split(sep) for a non-empty sep: from the left, without overlap
RECURSIVE SplitOn(_, _, _, _, _)
SplitOn(s, sep, i, cur, acc) ==
    IF i > Len(s) THEN Append(acc, cur)
    ELSE IF i + Len(sep) - 1 <= Len(s) /\ SubSeq(s, i, i + Len(sep) - 1) = sep
    THEN SplitOn(s, sep, i + Len(sep), <<>>, Append(acc, cur))
    ELSE SplitOn(s, sep, i + 1, Append(cur, s[i]), acc)

\* config.get(key, dflt)
CfgGet(config, key, dflt) ==
    IF key \in DOMAIN config.m THEN config.m[key]
    ELSE IF key \in config.flags THEN BoolV(TRUE)
    ELSE dflt

\* What the Entity Resolver does when asked: frappe.get_value returns the
\* matched document's return field, None when there is no match, or fails;
\* frappe.get_doc(...).insert() followed by doc.get(return_field) returns
\* the created document's return field, or fails.
Answer(v) == [ret |-> v, err |-> "none"]
Failure == [ret |-> NoneV, err |-> "ResolverError"]

NoResolver == [get_value |-> Answer(NoneV), insert |-> Answer(NoneV)]

Resolvers ==
    {[get_value |-> g, insert |-> i] :
        g \in {Answer(NoneV), Answer(StrV(<<"C", "1">>)), Answer(IntV(0)), Failure},
        i \in {Answer(StrV(<<"N", "1">>)), Failure}}

\* a transformer other than Lookup never asks the resolver
ResolverEnvs(func) == IF func = "transform_lookup" THEN Resolvers ELSE {NoResolver}

ExtCall(op, value, answer) == [op |-> op, value |-> value, answer |-> answer]

\* transform_lookup (lines 169-207).  frappe.get_value is called outside
\* the try block, the insert inside it.
transform_lookup(h, value, config, default, env) ==
    IF value = NoneV \/ value = StrV(<<>>)
    THEN [out |-> default, err |-> "none", ext |-> <<>>]
    ELSE IF config.k # "dict" THEN [out |-> NoneV, err |-> "AttributeError", ext |-> <<>>]
    ELSE IF ~Truthy(h, CfgGet(config, "doctype", NoneV))
    THEN [out |-> default, err |-> "none", ext |-> <<>>]
    ELSE LET asked == <<ExtCall("get_value", value, env.get_value)>>
             made == Append(asked, ExtCall("insert", value, env.insert))
         IN IF env.get_value.err # "none"
            THEN [out |-> NoneV, err |-> env.get_value.err, ext |-> asked]
            ELSE IF Truthy(h, env.get_value.ret)
            THEN [out |-> env.get_value.ret, err |-> "none", ext |-> asked]
            ELSE IF "create_if_missing" \in config.flags
            THEN (IF env.insert.err # "none"
                  THEN [out |-> default, err |-> "none", ext |-> made]
                  ELSE [out |-> env.insert.ret, err |-> "none", ext |-> made])
            ELSE [out |-> default, err |-> "none", ext |-> asked]

-----------------------------------------------------------------------------
(* eval(expression, {"__builtins__": {}}, context) on the expressions the  *)
(* rules use: the constants True and False, a text in single quotes, the   *)
(* name value, value == 'text', len(value) > 0 and 1/0.  bound says        *)
(* whether the context binds the name value, funcs which functions it      *)
(* binds.  The result is the value, or the exception eval raises.          *)

IsQuoted(e) ==
    /\ Len(e) >= 2
    /\ e[1] = "'"
    /\ e[Len(e)] = "'"
    /\ \A i \in 2..(Len(e) - 1) : e[i] \notin {"'", "\\"}

Unquote(e) == SubSeq(e, 2, Len(e) - 1)

HasPrefix(e, p) == Len(e) >= Len(p) /\ SubSeq(e, 1, Len(p)) = p

ValueEquals == <<"v", "a", "l", "u", "e", " ", "=", "=", " ">>
LenPositive == <<"l", "e", "n", "(", "v", "a", "l", "u", "e", ")", " ", ">", " ", "0">>

Evaluated(v) == [v |-> v, err |-> "none"]
EvalError(e) == [v |-> NoneV, err |-> e]

py_eval(h, expr, bound, value, funcs) ==
    CASE expr = <<>> -> EvalError("SyntaxError")
      [] expr = <<"T", "r", "u", "e">> -> Evaluated(BoolV(TRUE))
      [] expr = <<"F", "a", "l", "s", "e">> -> Evaluated(BoolV(FALSE))
      [] expr = <<"1", "/", "0">> -> EvalError("ZeroDivisionError")
      [] IsQuoted(expr) -> Evaluated(StrV(Unquote(expr)))
      [] expr = <<"v", "a", "l", "u", "e">> ->
             IF bound THEN Evaluated(value) ELSE EvalError("NameError")
      [] HasPrefix(expr, ValueEquals) /\ IsQuoted(SubSeq(expr, Len(ValueEquals) + 1, Len(expr))) ->
             IF bound
             THEN Evaluated(BoolV(value = StrV(Unquote(SubSeq(expr, Len(ValueEquals) + 1,
                                                              Len(expr))))))
             ELSE EvalError("NameError")
      [] expr = LenPositive ->
             IF "len" \notin funcs \/ ~bound THEN EvalError("NameError")
             ELSE IF PyLen(h, value) < 0 THEN EvalError("TypeError")
             ELSE Evaluated(BoolV(PyLen(h, value) > 0))

-----------------------------------------------------------------------------
(* transform_default                                                       *)

\* lines 397-418: the config's value, the field it names in the scope, its
\* expression, or the rule's default.  `in` on a config that is None or a
\* number raises TypeError.
ApplyDefault(h, config, default, scope) ==
    IF config.k \in {"none", "int"} THEN [out |-> NoneV, err |-> "TypeError"]
    ELSE IF "value" \in config.flags THEN [out |-> BoolV(TRUE), err |-> "none"]
    ELSE IF "value" \in DOMAIN config.m THEN [out |-> config.m["value"], err |-> "none"]
    ELSE IF "field" \in DOMAIN config.m
    THEN [out |-> _get_nested_value(h, scope, config.m["field"].s),
          err |-> GetErr(h, scope, config.m["field"].s)]
    ELSE IF "expression" \in DOMAIN config.m /\ config.m["expression"].t = "str"
    THEN LET e == py_eval(h, config.m["expression"].s, FALSE, NoneV, {})
         IN [out |-> IF e.err = "none" THEN e.v ELSE default, err |-> "none"]
    ELSE [out |-> default, err |-> "none"]

\* mutant of transform_default: the value is kept when the condition is
\* true and the default applied when it is false
transform_default_unless(h, value, config, default, scope) ==
    IF value # NoneV /\ value # StrV(<<>>)
    THEN IF config.k # "dict" THEN [out |-> NoneV, err |-> "AttributeError"]
         ELSE LET condition == CfgGet(config, "condition", NoneV)
                  e == py_eval(h, condition.s, TRUE, value, {})
              IN IF ~Truthy(h, condition) \/ condition.t # "str" \/ e.err # "none"
                 THEN [out |-> value, err |-> "none"]
                 ELSE IF Truthy(h, e.v) THEN [out |-> value, err |-> "none"]
                 ELSE ApplyDefault(h, config, default, scope)
    ELSE ApplyDefault(h, config, default, scope)

\* transform_default (lines 376-418): a value that is there is returned,
\* unless the config's condition evaluates to something true
transform_default(h, value, config, default, scope) ==
    IF value # NoneV /\ value # StrV(<<>>)
    THEN IF config.k # "dict" THEN [out |-> NoneV, err |-> "AttributeError"]
         ELSE LET condition == CfgGet(config, "condition", NoneV)
                  e == py_eval(h, condition.s, TRUE, value, {})
              IN IF ~Truthy(h, condition) \/ condition.t # "str" \/ e.err # "none"
                 THEN [out |-> value, err |-> "none"]
                 ELSE IF Truthy(h, e.v) THEN ApplyDefault(h, config, default, scope)
                 ELSE [out |-> value, err |-> "none"]
    ELSE ApplyDefault(h, config, default, scope)

-----------------------------------------------------------------------------
(* transform_conditional                                                   *)

\* the functions the eval context of Conditional binds
ConditionalFuncs == {"flt", "cint", "cstr", "len", "str", "int", "float", "bool"}

\* condition.get(key, dflt) of one pair of the conditions list
PairGet(pair, key, dflt) == IF key \in DOMAIN pair THEN pair[key] ELSE dflt

\* the loop of lines 641-651 from pair i on: both evals are inside the try,
\* so a pair whose `if` or whose `then` raises is passed over
RECURSIVE ConditionalLoop(_, _, _, _, _, _)
ConditionalLoop(h, value, conditions, i, eval_then, else_value) ==
    IF i > Len(conditions) THEN else_value
    ELSE LET if_expr == PairGet(conditions[i], "if", StrV(<<>>))
             then_value == PairGet(conditions[i], "then", NoneV)
             c == py_eval(h, if_expr.s, TRUE, value, ConditionalFuncs)
             t == py_eval(h, then_value.s, TRUE, value, ConditionalFuncs)
             next == ConditionalLoop(h, value, conditions, i + 1, eval_then, else_value)
         IN IF if_expr.t # "str" \/ c.err # "none" THEN next
            ELSE IF ~Truthy(h, c.v) THEN next
            ELSE IF eval_then /\ then_value.t = "str"
            THEN (IF t.err # "none" THEN next ELSE t.v)
            ELSE then_value

\* transform_conditional (lines 624-653)
transform_conditional(h, value, config, default) ==
    IF config.k # "dict" THEN [out |-> NoneV, err |-> "AttributeError"]
    ELSE [out |-> ConditionalLoop(h, value, CfgGet(config, "conditions", <<>>), 1,
                                  "eval_then" \in config.flags,
                                  CfgGet(config, "else", default)),
          err |-> "none"]

-----------------------------------------------------------------------------
(* transform_cast.  The types float, date, datetime and json are not       *)
(* modelled: no rule asks for them.                                        *)

\* the texts the cast to bool takes for true
TrueTexts == {<<"t", "r", "u", "e">>, <<"1">>, <<"y", "e", "s">>, <<"o", "n">>}

\* a new list of the values vs
NewList(h, vs) == [h |-> Append(h, ListObj(vs)), v |-> RefV(Len(h) + 1)]

\* [item.strip() for item in value.split(separator)]
StrippedParts(s, sep) ==
    LET parts == SplitOn(s, sep, 1, <<>>, <<>>)
    IN [i \in 1..Len(parts) |-> StrV(StrStrip(parts[i]))]

\* the cast to list (lines 338-343), inside the try: a separator that is
\* empty or no str makes split raise
CastList(h, value, config, default) ==
    LET separator == CfgGet(config, "separator", StrV(<<",">>))
    IN IF IsList(h, value) THEN [out |-> value, err |-> "none", h |-> h]
       ELSE IF value.t # "str"
       THEN [out |-> NewList(h, <<value>>).v, err |-> "none", h |-> NewList(h, <<value>>).h]
       ELSE IF separator.t # "str" \/ separator.s = <<>>
       THEN [out |-> default, err |-> "none", h |-> h]
       ELSE LET made == NewList(h, StrippedParts(value.s, separator.s))
            IN [out |-> made.v, err |-> "none", h |-> made.h]

\* mutant of transform_cast: an empty value is cast like any other, and so
\* is the default that stands in for it
transform_cast_default(h, value, config, default) ==
    LET v == IF value = NoneV \/ value = StrV(<<>>) THEN default ELSE value
        cast_type == CfgGet(config, "type", StrV(<<"s", "t", "r", "i", "n", "g">>))
    IN IF config.k # "dict" THEN [out |-> NoneV, err |-> "AttributeError", h |-> h]
       ELSE IF cast_type = StrV(<<"i", "n",
               "t">>) THEN [out |-> IntV(cint(v)), err |-> "none", h |-> h]
       ELSE IF cast_type = StrV(<<"s", "t", "r", "i", "n", "g">>)
       THEN [out |-> StrV(cstr(v)), err |-> "none", h |-> h]
       ELSE IF cast_type = StrV(<<"b", "o", "o", "l">>)
       THEN [out |-> IF v.t = "bool" THEN v
                     ELSE IF v.t = "str" THEN BoolV(StrLower(v.s) \in TrueTexts)
                     ELSE BoolV(Truthy(h, v)),
             err |-> "none", h |-> h]
       ELSE IF cast_type = StrV(<<"l", "i", "s", "t">>) THEN CastList(h, v, config, default)
       ELSE [out |-> v, err |-> "none", h |-> h]

\* transform_cast (lines 297-351)
transform_cast(h, value, config, default) ==
    LET cast_type == CfgGet(config, "type", StrV(<<"s", "t", "r", "i", "n", "g">>))
    IN IF value = NoneV \/ value = StrV(<<>>) THEN [out |-> default, err |-> "none", h |-> h]
       ELSE IF config.k # "dict" THEN [out |-> NoneV, err |-> "AttributeError", h |-> h]
       ELSE IF cast_type = StrV(<<"i", "n", "t">>)
       THEN [out |-> IntV(cint(value)), err |-> "none", h |-> h]
       ELSE IF cast_type = StrV(<<"s", "t", "r", "i", "n", "g">>)
       THEN [out |-> StrV(cstr(value)), err |-> "none", h |-> h]
       ELSE IF cast_type = StrV(<<"b", "o", "o", "l">>)
       THEN [out |-> IF value.t = "bool" THEN value
                     ELSE IF value.t = "str" THEN BoolV(StrLower(value.s) \in TrueTexts)
                     ELSE BoolV(Truthy(h, value)),
             err |-> "none", h |-> h]
       ELSE IF cast_type = StrV(<<"l", "i", "s", "t">>) THEN CastList(h, value, config, default)
       ELSE [out |-> value, err |-> "none", h |-> h]

-----------------------------------------------------------------------------
(* transform_split.  A separator of None (split on blanks) is not          *)
(* modelled.                                                               *)

\* transform_split (lines 488-502): nothing is caught, so the ValueError of
\* an empty separator and the TypeError of a separator that is no str or
\* of an index that is no number escape
transform_split(h, value, config, default) ==
    LET separator == CfgGet(config, "separator", StrV(<<" ">>))
        index == CfgGet(config, "index", IntV(0))
        parts == SplitOn(cstr(value), separator.s, 1, <<>>, <<>>)
        made == NewList(h, [i \in 1..Len(parts) |-> StrV(parts[i])])
    IN IF value = NoneV \/ value = StrV(<<>>) THEN [out |-> default, err |-> "none", h |-> h]
       ELSE IF config.k # "dict" THEN [out |-> NoneV, err |-> "AttributeError", h |-> h]
       ELSE IF separator.t # "str" THEN [out |-> NoneV, err |-> "TypeError", h |-> h]
       ELSE IF separator.s = <<>> THEN [out |-> NoneV, err |-> "ValueError", h |-> h]
       ELSE IF Truthy(h, CfgGet(config, "join", NoneV))
       THEN [out |-> made.v, err |-> "none", h |-> made.h]
       ELSE IF index.t \notin {"int", "bool"} THEN [out |-> NoneV, err |-> "TypeError", h |-> h]
       ELSE IF 0 <= index.a /\ index.a < Len(parts)
       THEN [out |-> StrV(parts[index.a + 1]), err |-> "none", h |-> h]
       ELSE [out |-> default, err |-> "none", h |-> h]

-----------------------------------------------------------------------------
(* transform_regex.  Of the patterns of the re module two are modelled:    *)
(* \d+, a run of digits, and the pattern "(", which does not compile.      *)

DigitsPattern == <<"\\", "d", "+">>
BadPattern == <<"(">>

\* where the first digit of s at or after i is, 0 when there is none
RECURSIVE FirstDigit(_, _)
FirstDigit(s, i) ==
    IF i > Len(s) THEN 0
    ELSE IF s[i] \in Digits THEN i
    ELSE FirstDigit(s, i + 1)

\* where the run of digits that starts at i ends
RECURSIVE RunEnd(_, _)
RunEnd(s, i) == IF i < Len(s) /\ s[i + 1] \in Digits THEN RunEnd(s, i + 1) ELSE i

\* re.sub(r"\d+", replacement, s)
RECURSIVE SubDigits(_, _, _)
SubDigits(s, replacement, i) ==
    LET d == FirstDigit(s, i)
    IN IF d = 0 THEN SubSeq(s, i, Len(s))
       ELSE SubSeq(s, i, d - 1) \o replacement \o SubDigits(s, replacement, RunEnd(s, d) + 1)

\* the operations of lines 573-588 for the pattern \d+; match.group(n)
\* raises IndexError for a group the pattern does not have
RegexDigits(h, str_value, config, default) ==
    LET operation == CfgGet(config, "operation", StrV(<<"e", "x", "t", "r", "a", "c", "t">>))
        d == FirstDigit(str_value, 1)
        group == CfgGet(config, "group", IntV(0))
        replacement == CfgGet(config, "replacement", StrV(<<>>))
    IN IF operation = StrV(<<"e", "x", "t", "r", "a", "c", "t">>)
       THEN (IF d = 0 THEN [out |-> default, err |-> "none"]
             ELSE IF group = IntV(0)
             THEN [out |-> StrV(SubSeq(str_value, d, RunEnd(str_value, d))), err |-> "none"]
             ELSE [out |-> NoneV, err |-> "IndexError"])
       ELSE IF operation = StrV(<<"s", "u", "b">>)
       THEN (IF replacement.t = "str"
             THEN [out |-> StrV(SubDigits(str_value, replacement.s, 1)), err |-> "none"]
             ELSE [out |-> NoneV, err |-> "TypeError"])
       ELSE IF operation = StrV(<<"m", "a", "t", "c",
               "h">>) THEN [out |-> BoolV(d = 1), err |-> "none"]
       ELSE IF operation = StrV(<<"s", "e", "a", "r", "c",
               "h">>) THEN [out |-> BoolV(d > 0), err |-> "none"]
       ELSE [out |-> default, err |-> "none"]

\* transform_regex (lines 564-595): re.error, and nothing else, is caught
transform_regex(h, value, config, default) ==
    LET pattern == CfgGet(config, "pattern", NoneV)
        operation == CfgGet(config, "operation", StrV(<<"e", "x", "t", "r", "a", "c", "t">>))
    IN IF value = NoneV \/ value = StrV(<<>>) THEN [out |-> default, err |-> "none"]
       ELSE IF config.k # "dict" THEN [out |-> NoneV, err |-> "AttributeError"]
       ELSE IF ~Truthy(h, pattern) THEN [out |-> value, err |-> "none"]
       ELSE CASE pattern = StrV(BadPattern) -> [out |-> default, err |-> "none"]
              [] pattern = StrV(DigitsPattern) -> RegexDigits(h, cstr(value), config, default)

-----------------------------------------------------------------------------
(* transform_map.  The mapping of the config is the sequence of its        *)
(* <<key, value>> entries in the order of the JSON text.                   *)

\* dict(entries).get(key, dflt): of two entries with one key the later
\* one stands
MapGet(entries, key, dflt) ==
    LET hits == {j \in 1..Len(entries) : entries[j][1] = key}
    IN IF hits = {} THEN dflt
       ELSE entries[CHOOSE j \in hits : \A k \in hits : k <= j][2]

\* {k.lower(): v for k, v in value_map.items()}
LowerKeys(entries) == [j \in 1..Len(entries) |-> <<StrLower(entries[j][1]), entries[j][2]>>]

\* mutant of transform_map: a value that has no entry is passed through
transform_map_passthrough(value, config, default) ==
    LET value_map == CfgGet(config, "mapping", <<>>)
        case_insensitive == "case_insensitive" \in config.flags
    IN IF value = NoneV THEN [out |-> default, err |-> "none"]
       ELSE IF config.k # "dict" THEN [out |-> NoneV, err |-> "AttributeError"]
       ELSE IF case_insensitive
       THEN [out |-> MapGet(LowerKeys(value_map), StrLower(cstr(value)), value), err |-> "none"]
       ELSE [out |-> MapGet(value_map, cstr(value), value), err |-> "none"]

\* transform_map (lines 529-540)
transform_map(value, config, default) ==
    LET value_map == CfgGet(config, "mapping", <<>>)
        case_insensitive == "case_insensitive" \in config.flags
    IN IF value = NoneV THEN [out |-> default, err |-> "none"]
       ELSE IF config.k # "dict" THEN [out |-> NoneV, err |-> "AttributeError"]
       ELSE IF case_insensitive
       THEN [out |-> MapGet(LowerKeys(value_map), StrLower(cstr(value)), default),
             err |-> "none"]
       ELSE [out |-> MapGet(value_map, cstr(value), default), err |-> "none"]

\* the result of a transformer that allocates nothing and calls nothing
Pure(r, h) == [out |-> r.out, err |-> r.err, h |-> h, ext |-> <<>>]

\* the call transformer(value=..., config=..., default=..., source_data=...,
\* mapping=...) of the function func: scope is its source_data, env what
\* the resolver does when asked.  The result is the returned value (out),
\* the exception that escaped (err), the heap afterwards (h) and the
\* resolver calls made (ext).
Invoke(func, h, value, config, default, scope, env) ==
    CASE func = "transform_direct" -> Pure(transform_direct(value, config, default), h)
      [] func = "transform_lookup" ->
             LET r == transform_lookup(h, value, config, default, env)
             IN [out |-> r.out, err |-> r.err, h |-> h, ext |-> r.ext]
      [] func = "transform_conditional" ->
             Pure(transform_conditional(h, value, config, default), h)
      [] func = "transform_cast" ->
             LET r == transform_cast(h, value, config, default)
             IN [out |-> r.out, err |-> r.err, h |-> r.h, ext |-> <<>>]
      [] func = "transform_split" ->
             LET r == transform_split(h, value, config, default)
             IN [out |-> r.out, err |-> r.err, h |-> r.h, ext |-> <<>>]
      [] func = "transform_regex" -> Pure(transform_regex(h, value, config, default), h)
      [] func = "transform_map" -> Pure(transform_map(value, config, default), h)
      [] func = "transform_default" ->
             Pure(transform_default(h, value, config, default, scope), h)

-----------------------------------------------------------------------------
(* The inputs: source documents and mapping rules.                         *)

Rule(sf, tf, kind, cfg, dv) ==
    [source_field |-> sf, target_field |-> tf, transformation |-> kind,
     transform_config |-> cfg, default_value |-> dv, is_child_mapping |-> FALSE,
     child_source_path |-> <<>>, child_target_path |-> <<>>]

ChildRule(csp, ctp, sf, tf, kind, cfg, dv) ==
    [source_field |-> sf, target_field |-> tf, transformation |-> kind,
     transform_config |-> cfg, default_value |-> dv, is_child_mapping |-> TRUE,
     child_source_path |-> csp, child_target_path |-> ctp]

\* {"a": "x", "m": {"b": "y"}, "l": [{"b": "x"}, {"b": " Y"}], "s": [{"b": "y"}]}
Source1 ==
    << DictObj([x \in {<<"a">>, <<"m">>, <<"l">>, <<"s">>} |->
                  CASE x = <<"a">> -> StrV(<<"x">>) [] x = <<"m">> -> RefV(2)
                    [] x = <<"l">> -> RefV(3) [] x = <<"s">> -> RefV(6)]),
       DictObj([x \in {<<"b">>} |-> StrV(<<"y">>)]),
       ListObj(<<RefV(4), RefV(5)>>),
       DictObj([x \in {<<"b">>} |-> StrV(<<"x">>)]),
       DictObj([x \in {<<"b">>} |-> StrV(<<" ", "Y">>)]),
       ListObj(<<RefV(7)>>),
       DictObj([x \in {<<"b">>} |-> StrV(<<"y">>)]) >>

\* {"a": "", "m": [], "l": "xy", "s": [{"b": "x"}, {}, 5]}
Source2 ==
    << DictObj([x \in {<<"a">>, <<"m">>, <<"l">>, <<"s">>} |->
                  CASE x = <<"a">> -> StrV(<<>>) [] x = <<"m">> -> RefV(2)
                    [] x = <<"l">> -> StrV(<<"x", "y">>) [] x = <<"s">> -> RefV(3)]),
       ListObj(<<>>),
       ListObj(<<RefV(4), RefV(5), IntV(5)>>),
       DictObj([x \in {<<"b">>} |-> StrV(<<"x">>)]),
       EmptyDict >>

SourcePool == <<Source1, Source2>>

RulePool ==
    << Rule(<<"a">>, <<"t">>, "Direct", "{bad", StrV(<<"d">>)),
       Rule(<<"l", ".", "0">>, <<"t">>, "Direct", "", NoneV),
       Rule(<<"l">>, <<"t", ".", "x">>, "Direct", "{}", NoneV),
       Rule(<<"q">>, <<"t">>, "Direct", CfgNone, NoneV),
       Rule(<<"a">>, <<"u">>, "Bogus", CfgNone, NoneV),
       Rule(<<"m", ".", "b">>, <<"u">>, "Direct", "[1]", StrV(<<"d">>)),
       Rule(<<"l", ".", "1", ".", "b">>, <<"u">>, "Direct",
            "{\"strip\": true, \"lower\": true}", NoneV),
       ChildRule(<<"l">>, <<"t">>, <<"b">>, <<"c">>, "Direct", "{\"upper\": true}", NoneV),
       ChildRule(<<"s">>, <<"t">>, <<"b">>, <<"d">>, "Direct", CfgNone, StrV(<<"d">>)),
       ChildRule(<<"m">>, <<"r">>, <<"b">>, <<"c">>, "Bogus", CfgNone, NoneV),
       ChildRule(<<"l">>, <<"t", ".", "x">>, <<"b">>, <<"x", ".", "0">>, "Direct",
                 CfgNone, NoneV) >>

\* the rule lists of n rules of the pool
RuleLists(n) ==
    {[i \in 1..n |-> RulePool[f[i]]] : f \in [1..n -> 1..Len(RulePool)]}

CtorArgs ==
    {[given |-> FALSE, rules |-> <<>>]}
    \cup {[given |-> TRUE, rules |-> r] : r \in UNION {RuleLists(n) : n \in 0..MaxRules}}

NoPathOp == [n |-> 0, op |-> "none", path |-> <<>>, value |-> NoneV, err |-> "none"]

\* no second call
NoCall ==
    [pc |-> "none", srcId |-> 0, source_data |-> NoneV, result |-> NoneV,
     child_mappings |-> <<>>, ruleIdx |-> 0, source_array |-> NoneV,
     target_array |-> NoneV, idx |-> 0, err |-> "none", calls |-> <<>>]

Init ==
    /\ pc = "new"
    /\ ctorArg \in CtorArgs
    /\ mappings = <<>>
    /\ _transformers = Builtins
    /\ srcId \in 1..Len(SourcePool)
    /\ source_data = RefV(1)
    /\ heap = SourcePool[srcId]
    /\ result = NoneV
    /\ child_mappings = <<>>
    /\ ruleIdx = 0
    /\ source_array = NoneV
    /\ target_array = NoneV
    /\ idx = 0
    /\ err = "none"
    /\ calls = <<>>
    /\ pathOp = NoPathOp
    /\ parked = NoCall
    /\ registered = <<>>

-----------------------------------------------------------------------------
(* FieldMapper.__init__ without an entity name (lines 55-64)               *)

__init__ ==
    /\ pc = "new"
    /\ mappings' = IF ctorArg.given /\ ctorArg.rules # <<>> THEN ctorArg.rules ELSE <<>>
    /\ pc' = "ready"
    /\ UNCHANGED <<ctorArg, _transformers, srcId, source_data, heap, result, child_mappings,
                   ruleIdx, source_array, target_array, idx, err, calls, pathOp,
                   parked, registered>>

-----------------------------------------------------------------------------
(* FieldMapper.transform.  frappe.throw raises frappe.ValidationError.     *)

Raise(e) == pc' = "raised" /\ err' = e

\* mutant of AfterMapping: one pass, the child rules run as soon as one is met
AfterMappingOnePass(i, cm) ==
    IF cm # <<>> THEN pc' = "pass2" /\ ruleIdx' = 1
    ELSE IF i < Len(mappings) THEN pc' = "pass1" /\ ruleIdx' = i + 1
    ELSE pc' = "done" /\ ruleIdx' = i

\* where the first loop of transform() goes after the mapping at position i
AfterMapping(i, cm) ==
    IF i < Len(mappings) THEN pc' = "pass1" /\ ruleIdx' = i + 1
    ELSE IF cm # <<>> THEN pc' = "pass2" /\ ruleIdx' = 1
    ELSE pc' = "done" /\ ruleIdx' = i

\* mutant of AfterChild: the second loop does not advance
AfterChildAgain(j) == pc' = "pass2" /\ ruleIdx' = j

\* where the second loop goes after the child mapping at position j
AfterChild(j) ==
    IF j < Len(child_mappings) THEN pc' = "pass2" /\ ruleIdx' = j + 1
    ELSE pc' = "done" /\ ruleIdx' = j

\* mutant of TransformBegin: without the check of lines 103-104 the loops
\* run over no mapping and the empty result is returned
transform_unchecked ==
    /\ pc = "ready"
    /\ heap' = Append(heap, EmptyDict)
    /\ result' = RefV(Len(heap) + 1)
    /\ IF mappings = <<>> THEN pc' = "done" /\ ruleIdx' = 0
       ELSE pc' = "pass1" /\ ruleIdx' = 1
    /\ child_mappings' = <<>>
    /\ UNCHANGED <<ctorArg, mappings, _transformers, srcId, source_data, source_array, target_array,
                   idx, err, calls, pathOp,
                   parked, registered>>

\* mutant of transform: one target document for all calls, the one of the
\* call under way is written again
transform_shared_target ==
    /\ pc = "ready"
    /\ IF mappings = <<>>
       THEN /\ Raise("ValidationError")
            /\ UNCHANGED <<heap, result, ruleIdx>>
       ELSE /\ IF parked.result.t = "ref"
               THEN heap' = heap /\ result' = parked.result
               ELSE heap' = Append(heap, EmptyDict) /\ result' = RefV(Len(heap) + 1)
            /\ ruleIdx' = 1
            /\ pc' = "pass1"
            /\ err' = err
    /\ child_mappings' = <<>>
    /\ UNCHANGED <<ctorArg, mappings, _transformers, srcId, source_data, source_array, target_array,
                   idx, calls, pathOp, parked, registered>>

\* lines 103-107
transform ==
    /\ pc = "ready"
    /\ IF mappings = <<>>
       THEN /\ Raise("ValidationError")
            /\ UNCHANGED <<heap, result, ruleIdx>>
       ELSE /\ heap' = Append(heap, EmptyDict)
            /\ result' = RefV(Len(heap) + 1)
            /\ ruleIdx' = 1
            /\ pc' = "pass1"
            /\ err' = err
    /\ child_mappings' = <<>>
    /\ UNCHANGED <<ctorArg, mappings, _transformers, srcId, source_data, source_array, target_array,
                   idx, calls, pathOp,
                   parked, registered>>

\* lines 110-112: a child mapping is set aside for the second loop
CollectChild ==
    /\ pc = "pass1"
    /\ mappings[ruleIdx].is_child_mapping
    /\ child_mappings' = Append(child_mappings, ruleIdx)
    /\ AfterMapping(ruleIdx, child_mappings')
    /\ UNCHANGED <<ctorArg, mappings, _transformers, srcId, source_data, heap, result,
                   source_array, target_array, idx, err, calls, pathOp,
                   parked, registered>>

\* the record of one transformer invocation: the rule, the row (-1 for a
\* non-child rule), the value handed over, what came back
Call(rule, row, value, r) ==
    [rule |-> rule, row |-> row, value |-> value, out |-> r.out, err |-> r.err,
     ext |-> r.ext]

\* lines 113-114 and _apply_mapping (lines 133-153)
_apply_mapping ==
    /\ pc = "pass1"
    /\ ~mappings[ruleIdx].is_child_mapping
    /\ LET rule == mappings[ruleIdx]
           source_value == _get_nested_value(heap, source_data, rule.source_field)
           transformer == get_transformer(_transformers, rule.transformation)
       IN IF GetErr(heap, source_data, rule.source_field) # "none"
          THEN /\ Raise(GetErr(heap, source_data, rule.source_field))
               /\ UNCHANGED <<heap, ruleIdx, calls>>
          ELSE IF transformer.err # "none"
          THEN /\ Raise(transformer.err)
               /\ UNCHANGED <<heap, ruleIdx, calls>>
          ELSE \E env \in ResolverEnvs(transformer.func) :
               LET r == Invoke(transformer.func, heap, source_value,
                               _parse_config(rule.transform_config), rule.default_value,
                               source_data, env)
                   w == _set_nested_value(r.h, result, rule.target_field, r.out)
               IN /\ calls' = Append(calls, Call(ruleIdx, -1, source_value, r))
                  /\ IF r.err # "none"
                     THEN Raise(r.err) /\ UNCHANGED <<heap, ruleIdx>>
                     ELSE /\ heap' = w.h
                          /\ IF w.err # "none"
                             THEN Raise(w.err) /\ ruleIdx' = ruleIdx
                             ELSE AfterMapping(ruleIdx, child_mappings) /\ err' = err
    /\ UNCHANGED <<ctorArg, mappings, _transformers, srcId, source_data, result, child_mappings,
                   source_array, target_array, idx, pathOp,
                   parked, registered>>

\* [{} for _ in source_array]: n new dicts, then the list of them
RECURSIVE NewRows(_, _, _)
NewRows(h, n, rows) ==
    IF n = 0 THEN [h |-> Append(h, ListObj(rows)), v |-> RefV(Len(h) + 1)]
    ELSE NewRows(Append(h, EmptyDict), n - 1, Append(rows, RefV(Len(h) + 1)))

\* lines 187-188 on a list: while len(target_array) < n: target_array.append({})
RECURSIVE PadList(_, _, _)
PadList(h, a, n) ==
    IF Len(h[a].l) >= n THEN h
    ELSE LET h1 == Append(h, EmptyDict)
         IN PadList([h1 EXCEPT ![a].l = Append(@, RefV(Len(h1)))], a, n)

\* lines 187-188 on any value: len() of an int raises TypeError, a dict or
\* str shorter than n has no append (AttributeError)
Pad(h, ta, n) ==
    IF PyLen(h, ta) < 0 THEN [h |-> h, err |-> "TypeError"]
    ELSE IF PyLen(h, ta) >= n THEN [h |-> h, err |-> "none"]
    ELSE IF IsList(h, ta) THEN [h |-> PadList(h, ta.a, n), err |-> "none"]
    ELSE [h |-> h, err |-> "AttributeError"]

\* mutant of SkipChild: the target array is looked up and created before
\* the source is found to be no list
SkipChildAfterCreate ==
    LET rule == mappings[child_mappings[ruleIdx]]
        found == _get_nested_value(heap, result, rule.child_target_path)
        made == NewRows(heap, 0, <<>>)
        w == IF found = NoneV
             THEN _set_nested_value(made.h, result, rule.child_target_path, made.v)
             ELSE [h |-> heap, err |-> "none"]
    IN /\ heap' = w.h
       /\ AfterChild(ruleIdx)
       /\ UNCHANGED <<source_array, target_array, idx, err>>

\* the return of line 178: nothing is looked up, created or called
SkipChild ==
    /\ AfterChild(ruleIdx)
    /\ UNCHANGED <<heap, source_array, target_array, idx, err>>

\* _apply_child_mapping up to its row loop (lines 166-191)
_apply_child_mapping ==
    /\ pc = "pass2"
    /\ LET rule == mappings[child_mappings[ruleIdx]]
           sa == _get_nested_value(heap, source_data, rule.child_source_path)
       IN IF GetErr(heap, source_data, rule.child_source_path) # "none"
          THEN /\ Raise(GetErr(heap, source_data, rule.child_source_path))
               /\ UNCHANGED <<heap, ruleIdx, source_array, target_array, idx>>
          ELSE IF ~IsList(heap, sa)
          THEN SkipChild
          ELSE IF GetErr(heap, result, rule.child_target_path) # "none"
          THEN /\ Raise(GetErr(heap, result, rule.child_target_path))
               /\ source_array' = sa
               /\ UNCHANGED <<heap, ruleIdx, target_array, idx>>
          ELSE LET n == Len(heap[sa.a].l)
                   found == _get_nested_value(heap, result, rule.child_target_path)
                   made == NewRows(heap, n, <<>>)
                   ta == IF found = NoneV THEN made.v ELSE found
                   w == IF found = NoneV
                        THEN _set_nested_value(made.h, result, rule.child_target_path, made.v)
                        ELSE [h |-> heap, err |-> "none"]
                   p == Pad(w.h, ta, n)
               IN /\ source_array' = sa
                  /\ target_array' = ta
                  /\ idx' = 0
                  /\ IF w.err # "none"
                     THEN heap' = w.h /\ Raise(w.err) /\ ruleIdx' = ruleIdx
                     ELSE /\ heap' = p.h
                          /\ IF p.err # "none"
                             THEN Raise(p.err) /\ ruleIdx' = ruleIdx
                             ELSE IF get_transformer(_transformers,
                                                     rule.transformation).err # "none"
                             THEN Raise("ValidationError") /\ ruleIdx' = ruleIdx
                             ELSE IF Len(heap'[sa.a].l) = 0
                             THEN AfterChild(ruleIdx) /\ err' = err
                             ELSE pc' = "rows" /\ ruleIdx' = ruleIdx /\ err' = err
    /\ UNCHANGED <<ctorArg, mappings, _transformers, srcId, source_data, result, child_mappings,
                   calls, pathOp,
                   parked, registered>>

\* target_array[idx]: a list element, a character of a str; a dict has no
\* int key (KeyError)
Subscript(h, ta, i) ==
    IF IsList(h, ta)
    THEN (IF i < Len(h[ta.a].l) THEN [v |-> h[ta.a].l[i + 1], err |-> "none"]
          ELSE [v |-> NoneV, err |-> "IndexError"])
    ELSE IF IsDict(h, ta) THEN [v |-> NoneV, err |-> "KeyError"]
    ELSE IF ta.t = "str"
    THEN (IF i < Len(ta.s) THEN [v |-> StrV(<<ta.s[i + 1]>>), err |-> "none"]
          ELSE [v |-> NoneV, err |-> "IndexError"])
    ELSE [v |-> NoneV, err |-> "TypeError"]

\* one round of the row loop of _apply_child_mapping (lines 192-203)
_apply_child_mapping_row ==
    /\ pc = "rows"
    /\ \E env \in ResolverEnvs(get_transformer(_transformers,
                         mappings[child_mappings[ruleIdx]].transformation).func) :
       LET rule == mappings[child_mappings[ruleIdx]]
           source_item == heap[source_array.a].l[idx + 1]
           source_value == _get_nested_value(heap, source_item, rule.source_field)
           r == Invoke(get_transformer(_transformers, rule.transformation).func, heap,
                       source_value, _parse_config(rule.transform_config),
                       rule.default_value, source_item, env)
           row == Subscript(r.h, target_array, idx)
           w == _set_nested_value(r.h, row.v, rule.target_field, r.out)
       IN IF GetErr(heap, source_item, rule.source_field) # "none"
          THEN /\ Raise(GetErr(heap, source_item, rule.source_field))
               /\ UNCHANGED <<heap, ruleIdx, idx, calls>>
          ELSE
          /\ calls' = Append(calls, Call(child_mappings[ruleIdx], idx, source_value, r))
          /\ IF r.err # "none"
             THEN Raise(r.err) /\ UNCHANGED <<heap, ruleIdx, idx>>
             ELSE IF row.err # "none"
             THEN Raise(row.err) /\ UNCHANGED <<heap, ruleIdx, idx>>
             ELSE /\ heap' = w.h
                  /\ IF w.err # "none"
                     THEN Raise(w.err) /\ UNCHANGED <<ruleIdx, idx>>
                     ELSE /\ err' = err
                          /\ IF idx + 1 < Len(heap'[source_array.a].l)
                             THEN pc' = "rows" /\ idx' = idx + 1 /\ ruleIdx' = ruleIdx
                             ELSE AfterChild(ruleIdx) /\ idx' = idx
    /\ UNCHANGED <<ctorArg, mappings, _transformers, srcId, source_data, result, child_mappings,
                   source_array, target_array, pathOp,
                   parked, registered>>

Next ==
    \/ __init__
    \/ transform
    \/ CollectChild
    \/ _apply_mapping
    \/ _apply_child_mapping
    \/ _apply_child_mapping_row

Spec == Init /\ [][Next]_vars

-----------------------------------------------------------------------------
(* Two transform() calls of one FieldMapper.  The locals of the call that  *)
(* is not running are parked; the heap, self.mappings and the registry are *)
(* the same for both.                                                      *)

\* the locals of the running call
Locals ==
    [pc |-> pc, srcId |-> srcId, source_data |-> source_data, result |-> result,
     child_mappings |-> child_mappings, ruleIdx |-> ruleIdx,
     source_array |-> source_array, target_array |-> target_array, idx |-> idx,
     err |-> err, calls |-> calls]

\* the running call is parked and the parked call runs
Resume ==
    /\ pc' = parked.pc
    /\ srcId' = parked.srcId
    /\ source_data' = parked.source_data
    /\ result' = parked.result
    /\ child_mappings' = parked.child_mappings
    /\ ruleIdx' = parked.ruleIdx
    /\ source_array' = parked.source_array
    /\ target_array' = parked.target_array
    /\ idx' = parked.idx
    /\ err' = parked.err
    /\ calls' = parked.calls
    /\ parked' = Locals
    /\ UNCHANGED <<ctorArg, mappings, _transformers, heap, pathOp, registered>>

\* a call of mapper.transform(source) that has not begun
Waiting(id, src) == [NoCall EXCEPT !.pc = "ready", !.srcId = id, !.source_data = src]

\* mapper.transform(source) is called again, with the same source object,
\* after the first call has returned
transform_again ==
    /\ pc = "done"
    /\ parked.pc = "ready"
    /\ Resume

SeqInit ==
    /\ pc = "new"
    /\ ctorArg \in CtorArgs
    /\ mappings = <<>>
    /\ _transformers = Builtins
    /\ srcId \in 1..Len(SourcePool)
    /\ source_data = RefV(1)
    /\ heap = SourcePool[srcId]
    /\ result = NoneV
    /\ child_mappings = <<>>
    /\ ruleIdx = 0
    /\ source_array = NoneV
    /\ target_array = NoneV
    /\ idx = 0
    /\ err = "none"
    /\ calls = <<>>
    /\ pathOp = NoPathOp
    /\ parked = Waiting(srcId, source_data)
    /\ registered = <<>>

SeqNext == Next \/ transform_again

SeqSpec == SeqInit /\ [][SeqNext]_vars

\* the document at v as a tree, to depth d: what == compares
RECURSIVE Unfold(_, _, _)
Unfold(h, v, d) ==
    IF v.t # "ref"
    THEN [t |-> v.t, s |-> v.s, a |-> v.a, m |-> EmptyMap, l |-> <<>>]
    ELSE IF d = 0
    THEN [t |-> "deeper", s |-> <<>>, a |-> 0, m |-> EmptyMap, l |-> <<>>]
    ELSE IF h[v.a].k = "dict"
    THEN [t |-> "dict", s |-> <<>>, a |-> 0,
          m |-> [x \in DOMAIN h[v.a].m |-> Unfold(h, h[v.a].m[x], d - 1)], l |-> <<>>]
    ELSE [t |-> "list", s |-> <<>>, a |-> 0, m |-> EmptyMap,
          l |-> [i \in 1..Len(h[v.a].l) |-> Unfold(h, h[v.a].l[i], d - 1)]]

-----------------------------------------------------------------------------
(* Two transform() calls of one FieldMapper on two source documents, the   *)
(* steps of the two interleaved.                                           *)

\* a document placed k addresses further in the heap
ShiftV(v, k) == IF v.t = "ref" THEN RefV(v.a + k) ELSE v

Relocate(doc, k) ==
    [a \in 1..Len(doc) |->
        [k |-> doc[a].k,
         m |-> [x \in DOMAIN doc[a].m |-> ShiftV(doc[a].m[x], k)],
         l |-> [i \in 1..Len(doc[a].l) |-> ShiftV(doc[a].l[i], k)]]]

\* the rules of the interleaved calls
ParPool == <<RulePool[2], RulePool[3], RulePool[8]>>

ParCtorArgs ==
    {[given |-> TRUE, rules |-> [i \in 1..n |-> ParPool[f[i]]]] :
        n \in 1..MaxRules, f \in [1..MaxRules -> 1..Len(ParPool)]}

ParInit ==
    /\ pc = "new"
    /\ ctorArg \in ParCtorArgs
    /\ mappings = <<>>
    /\ _transformers = Builtins
    /\ srcId \in 1..Len(SourcePool)
    /\ source_data = RefV(1)
    /\ \E other \in 1..Len(SourcePool) :
          /\ heap = SourcePool[srcId] \o Relocate(SourcePool[other], Len(SourcePool[srcId]))
          /\ parked = Waiting(other, RefV(Len(SourcePool[srcId]) + 1))
    /\ result = NoneV
    /\ child_mappings = <<>>
    /\ ruleIdx = 0
    /\ source_array = NoneV
    /\ target_array = NoneV
    /\ idx = 0
    /\ err = "none"
    /\ calls = <<>>
    /\ pathOp = NoPathOp
    /\ registered = <<>>

\* the scheduler: the other call takes its next steps
switch ==
    /\ pc # "new"
    /\ parked.pc \notin {"none", "done", "raised"}
    /\ Resume

ParNext == Next \/ switch

ParSpec == ParInit /\ [][ParNext]_vars

-----------------------------------------------------------------------------
(* The registry specification: TransformerRegistry.register applied to    *)
(* the registry the built-ins were installed in.                           *)

RegNames == {"Direct", "Map", "Custom", "Other"}
RegFuncs == {"transform_direct", "custom_1", "custom_2"}

RegInit ==
    /\ pc = "registry"
    /\ _transformers = Builtins
    /\ registered = <<>>
    /\ ctorArg = [given |-> FALSE, rules |-> <<>>]
    /\ mappings = <<>>
    /\ srcId = 0
    /\ source_data = NoneV
    /\ heap = <<>>
    /\ result = NoneV
    /\ child_mappings = <<>>
    /\ ruleIdx = 0
    /\ source_array = NoneV
    /\ target_array = NoneV
    /\ idx = 0
    /\ err = "none"
    /\ calls = <<>>
    /\ pathOp = NoPathOp
    /\ parked = NoCall

\* mutant of register: a name that is registered keeps its function
register_keep_first(name, func) ==
    /\ pc = "registry"
    /\ Len(registered) < MaxRegisters
    /\ _transformers' = IF name \in DOMAIN _transformers THEN _transformers
                        ELSE Put(_transformers, name, func)
    /\ registered' = Append(registered, [name |-> name, func |-> func])
    /\ UNCHANGED <<pc, ctorArg, mappings, srcId, source_data, heap, result, child_mappings,
                   ruleIdx, source_array, target_array, idx, err, calls, pathOp, parked>>

\* TransformerRegistry.register(name, func): cls._transformers[name] = func
register(name, func) ==
    /\ pc = "registry"
    /\ Len(registered) < MaxRegisters
    /\ _transformers' = Put(_transformers, name, func)
    /\ registered' = Append(registered, [name |-> name, func |-> func])
    /\ UNCHANGED <<pc, ctorArg, mappings, srcId, source_data, heap, result, child_mappings,
                   ruleIdx, source_array, target_array, idx, err, calls, pathOp, parked>>

RegNext == \E name \in RegNames, func \in RegFuncs : register(name, func)

RegSpec == RegInit /\ [][RegNext]_vars

-----------------------------------------------------------------------------
(* The transformer specification: transform() of a FieldMapper whose rules *)
(* are of the built-in kinds, on one source document that holds a text, a  *)
(* number text, an empty text, a null, an int, a map and a list of rows.   *)

\* {"a": "PAID", "n": "2", "e": "", "z": null, "k": 5, "m": {"b": "y"},
\*  "l": [{"b": "x 2"}, {"b": ""}, {}]}
KindSource ==
    << DictObj([x \in {<<"a">>, <<"n">>, <<"e">>, <<"z">>, <<"k">>, <<"m">>, <<"l">>} |->
                  CASE x = <<"a">> -> StrV(<<"P", "A", "I", "D">>)
                    [] x = <<"n">> -> StrV(<<"2">>)
                    [] x = <<"e">> -> StrV(<<>>)
                    [] x = <<"z">> -> NoneV
                    [] x = <<"k">> -> IntV(5)
                    [] x = <<"m">> -> RefV(2)
                    [] x = <<"l">> -> RefV(3)]),
       DictObj([x \in {<<"b">>} |-> StrV(<<"y">>)]),
       ListObj(<<RefV(4), RefV(5), RefV(6)>>),
       DictObj([x \in {<<"b">>} |-> StrV(<<"x", " ", "2">>)]),
       DictObj([x \in {<<"b">>} |-> StrV(<<>>)]),
       EmptyDict >>

KindPool ==
    << Rule(<<"a">>, <<"t">>, "Lookup",
            "{\"doctype\": \"Customer\"}", StrV(<<"d">>)),
       Rule(<<"z">>, <<"u">>, "Lookup",
            "{\"doctype\": \"Customer\", \"create_if_missing\": true}", StrV(<<"d">>)),
       ChildRule(<<"l">>, <<"r">>, <<"b">>, <<"c">>, "Lookup",
                 "{\"doctype\": \"Customer\"}", StrV(<<"d">>)),
       Rule(<<"e">>, <<"u">>, "Direct",
            CfgNone, StrV(<<"d">>)),
       ChildRule(<<"q">>, <<"r">>, <<"b">>, <<"c">>, "Direct",
                 CfgNone, NoneV),
       ChildRule(<<"z">>, <<"r">>, <<"b">>, <<"c">>, "Lookup",
                 "{\"doctype\": \"Customer\", \"create_if_missing\": true}", StrV(<<"d">>)),
       ChildRule(<<"m">>, <<"t">>, <<"b">>, <<"c">>, "Bogus",
                 CfgNone, NoneV),
       ChildRule(<<"a">>, <<"u">>, <<"b">>, <<"c">>, "Direct",
                 "{\"upper\": true}", StrV(<<"d">>)),
       Rule(<<"a">>, <<"t">>, "Lookup",
            "{\"doctype\": \"Customer\", \"create_if_missing\": true}", StrV(<<"d">>)),
       Rule(<<"k">>, <<"t", ".", "x">>, "Lookup",
            "{}", StrV(<<"d">>)),
       Rule(<<"a">>, <<"t">>, "Default",
            "{\"value\": \"V\"}", StrV(<<"d">>)),
       Rule(<<"a">>, <<"t">>, "Default",
            "{\"condition\": \"True\", \"value\": \"V\"}", StrV(<<"d">>)),
       Rule(<<"a">>, <<"t">>, "Default",
            "{\"condition\": \"False\", \"value\": \"V\"}", StrV(<<"d">>)),
       Rule(<<"a">>, <<"t">>, "Default",
            "{\"condition\": \"1/0\", \"field\": \"m.b\"}", StrV(<<"d">>)),
       Rule(<<"a">>, <<"u">>, "Default",
            "{\"condition\": \"len(value) > 0\", \"expression\": \"1/0\"}", StrV(<<"d">>)),
       Rule(<<"k">>, <<"t">>, "Default",
            "{\"condition\": \"value\", \"field\": \"m.b\"}", StrV(<<"d">>)),
       Rule(<<"a">>, <<"t">>, "Default",
            "{\"condition\": \"True\", \"expression\": \"value\"}", StrV(<<"d">>)),
       Rule(<<"a">>, <<"t">>, "Default",
            "{\"condition\": \"True\"}", StrV(<<"d">>)),
       Rule(<<"z">>, <<"t">>, "Default",
            CfgNone, StrV(<<"d">>)),
       ChildRule(<<"l">>, <<"r">>, <<"b">>, <<"c">>, "Default",
                 "{\"condition\": \"value == 'x 2'\", \"expression\": \"'B'\"}", StrV(<<"d">>)),
       Rule(<<"a">>, <<"t">>, "Conditional",
            "{\"conditions\": [{\"if\": \"False\", \"then\": \"A\"}, {\"if\": \"value == 'PAID'\", \"then\": \"B\"}, {\"if\": \"True\", \"then\": \"C\"}], \"else\": \"E\"}", StrV(<<"d">>)),
       Rule(<<"a">>, <<"t">>, "Conditional",
            "{\"conditions\": [{\"if\": \"True\", \"then\": \"1/0\"}, {\"if\": \"True\", \"then\": \"'B'\"}], \"eval_then\": true, \"else\": \"E\"}", StrV(<<"d">>)),
       Rule(<<"a">>, <<"t">>, "Conditional",
            "{\"conditions\": [{\"if\": \"1/0\", \"then\": \"A\"}, {\"then\": \"X\"}]}", StrV(<<"d">>)),
       ChildRule(<<"l">>, <<"r">>, <<"b">>, <<"c">>, "Conditional",
                 "{\"conditions\": [{\"if\": \"len(value) > 0\", \"then\": \"A\"}], \"else\": null}", StrV(<<"d">>)),
       Rule(<<"z">>, <<"t">>, "Conditional",
            "{\"conditions\": [{\"if\": \"value\", \"then\": \"'A'\"}, {\"if\": \"True\", \"then\": \"'B'\"}], \"eval_then\": true}", StrV(<<"d">>)),
       Rule(<<"k">>, <<"u">>, "Conditional",
            CfgNone, StrV(<<"d">>)),
       Rule(<<"n">>, <<"t">>, "Cast",
            "{\"type\": \"int\"}", StrV(<<"1">>)),
       Rule(<<"e">>, <<"t">>, "Cast",
            "{\"type\": \"int\"}", StrV(<<"1">>)),
       ChildRule(<<"l">>, <<"r">>, <<"b">>, <<"c">>, "Cast",
                 "{\"type\": \"int\"}", StrV(<<"1">>)),
       Rule(<<"k">>, <<"t">>, "Cast",
            CfgNone, NoneV),
       Rule(<<"a">>, <<"t">>, "Cast",
            "{\"type\": \"bool\"}", StrV(<<"d">>)),
       Rule(<<"a">>, <<"u">>, "Cast",
            "{\"type\": \"list\", \"separator\": \"A\"}", StrV(<<"d">>)),
       Rule(<<"z">>, <<"t">>, "Cast",
            "{\"type\": \"weird\"}", StrV(<<"d">>)),
       Rule(<<"a">>, <<"t">>, "Cast",
            "{\"type\": \"weird\"}", StrV(<<"d">>)),
       ChildRule(<<"l">>, <<"r">>, <<"b">>, <<"c">>, "Split",
                 "{\"index\": 1}", StrV(<<"d">>)),
       Rule(<<"a">>, <<"t">>, "Split",
            "{\"separator\": \"A\", \"index\": 5}", StrV(<<"d">>)),
       Rule(<<"a">>, <<"t">>, "Split",
            "{\"separator\": \"AI\", \"join\": true}", StrV(<<"d">>)),
       Rule(<<"z">>, <<"t">>, "Split",
            CfgNone, StrV(<<"d">>)),
       ChildRule(<<"l">>, <<"r">>, <<"b">>, <<"c">>, "Regex",
                 "{\"pattern\": \"\\\\d+\"}", StrV(<<"d">>)),
       Rule(<<"a">>, <<"t">>, "Regex",
            "{\"pattern\": \"\\\\d+\"}", StrV(<<"d">>)),
       Rule(<<"n">>, <<"t">>, "Regex",
            "{\"pattern\": \"(\"}", StrV(<<"d">>)),
       Rule(<<"n">>, <<"t">>, "Regex",
            "{\"pattern\": \"\\\\d+\", \"operation\": \"sub\", \"replacement\": \"N\"}", StrV(<<"d">>)),
       Rule(<<"e">>, <<"t">>, "Regex",
            "{\"pattern\": \"(\"}", StrV(<<"d">>)),
       Rule(<<"a">>, <<"t">>, "Regex",
            "{}", StrV(<<"d">>)),
       Rule(<<"k">>, <<"t">>, "Regex",
            "{\"pattern\": \"\\\\d+\", \"operation\": \"match\"}", StrV(<<"d">>)),
       Rule(<<"q">>, <<"t">>, "Direct",
            "{\"upper\": true}", StrV(<<"d">>)),
       Rule(<<"a">>, <<"t">>, "Map",
            "{\"mapping\": {\"paid\": \"Paid\", \"pending\": \"Draft\"}, \"case_insensitive\": true}", StrV(<<"d">>)),
       Rule(<<"a">>, <<"t">>, "Map",
            "{\"mapping\": {\"paid\": \"Paid\", \"pending\": \"Draft\"}}", StrV(<<"d">>)),
       Rule(<<"z">>, <<"t">>, "Map",
            "{\"mapping\": {\"paid\": \"Paid\", \"pending\": \"Draft\"}, \"case_insensitive\": true}", StrV(<<"d">>)),
       ChildRule(<<"l">>, <<"r">>, <<"b">>, <<"c">>, "Map",
                 "{\"mapping\": {\"x 2\": \"X\", \"\": \"E\"}}", StrV(<<"d">>)),
       Rule(<<"k">>, <<"t">>, "Map",
            "{\"mapping\": {\"5\": \"five\"}}", StrV(<<"d">>)),
       Rule(<<"a">>, <<"u">>, "Map",
            "{\"mapping\": {\"PAID\": \"1\", \"Paid\": \"2\"}, \"case_insensitive\": true}", StrV(<<"d">>)),
       Rule(<<"n">>, <<"t">>, "Map",
            CfgNone, StrV(<<"d">>)),
       ChildRule(<<"l">>, <<"r">>, <<"x">>, <<"c">>, "Default",
                 "{\"field\": \"b\"}", StrV(<<"d">>)),
       Rule(<<"a">>, <<"t">>, "Split",
            "{\"separator\": \"\"}", StrV(<<"d">>)),
       Rule(<<"a">>, <<"t">>, "Split",
            "{\"separator\": 5}", StrV(<<"d">>)),
       Rule(<<"a">>, <<"t">>, "Split",
            "{\"separator\": \"A\", \"index\": \"x\"}", StrV(<<"d">>)),
       Rule(<<"n">>, <<"t">>, "Regex",
            "{\"pattern\": \"\\\\d+\", \"group\": 1}", StrV(<<"d">>)) >>

\* the rules a rule list goes on with after its first rule
FollowPool == SubSeq(KindPool, 1, 8)

\* the rule lists of 1..n rules: a rule of the pool, then rules of FollowPool
KindLists(n) ==
    {<<KindPool[i]>> \o [j \in DOMAIN f |-> FollowPool[f[j]]] :
        i \in 1..Len(KindPool),
        f \in UNION {[1..m -> 1..Len(FollowPool)] : m \in 0..(n - 1)}}

KindInit ==
    /\ pc = "new"
    /\ ctorArg \in {[given |-> TRUE, rules |-> r] : r \in KindLists(MaxKindRules)}
    /\ mappings = <<>>
    /\ _transformers = Builtins
    /\ srcId = 0
    /\ source_data = RefV(1)
    /\ heap = KindSource
    /\ result = NoneV
    /\ child_mappings = <<>>
    /\ ruleIdx = 0
    /\ source_array = NoneV
    /\ target_array = NoneV
    /\ idx = 0
    /\ err = "none"
    /\ calls = <<>>
    /\ pathOp = NoPathOp
    /\ parked = NoCall
    /\ registered = <<>>

KindSpec == KindInit /\ [][Next]_vars

-----------------------------------------------------------------------------
(* The path specification: _set_nested_value applied to a document, for    *)
(* the properties of the two path functions alone.                         *)

PathDocs == {<<EmptyDict>>, Source1, Source2}

PathPool ==
    { <<>>, <<"a">>, <<"a", ".", "b">>, <<"n", ".", "b">>, <<"n", ".", "1">>,
      <<"n", ".", "1", ".", "b">>, <<"l", ".", "0", ".", "c">>,
      <<"l", ".", "3">>, <<"m", ".", "b">>, <<"m", ".", "0">> }

PathValues == {NoneV, StrV(<<"v">>), IntV(0), RefV(1)}

PathInit ==
    /\ pc = "path"
    /\ heap \in PathDocs
    /\ source_data = RefV(1)
    /\ pathOp = NoPathOp
    /\ ctorArg = [given |-> FALSE, rules |-> <<>>]
    /\ mappings = <<>>
    /\ _transformers = Builtins
    /\ srcId = 0
    /\ result = NoneV
    /\ child_mappings = <<>>
    /\ ruleIdx = 0
    /\ source_array = NoneV
    /\ target_array = NoneV
    /\ idx = 0
    /\ err = "none"
    /\ calls = <<>>
    /\ parked = NoCall
    /\ registered = <<>>

\* self._set_nested_value(source, path, value)
PathSet(path, value) ==
    /\ pc = "path"
    /\ pathOp.n < MaxPathOps
    /\ LET w == _set_nested_value(heap, source_data, path, value)
       IN /\ heap' = w.h
          /\ pathOp' = [n |-> pathOp.n + 1, op |-> "set", path |-> path, value |-> value,
                        err |-> w.err]
    /\ UNCHANGED <<pc, ctorArg, mappings, _transformers, srcId, source_data, result,
                   child_mappings, ruleIdx, source_array, target_array, idx, err, calls,
                   parked, registered>>

PathNext == \E path \in PathPool, value \in PathValues : PathSet(path, value)

PathSpec == PathInit /\ [][PathNext]_vars

\* the paths read: empty, a key, a key below a scalar, a missing key, a row
\* and its field, an index out of range, a segment on a list that is no
\* number, and one that isdigit() accepts and int() rejects
GetPool ==
    { <<>>, <<"a">>, <<"a", ".", "b">>, <<"m", ".", "b">>, <<"m", ".", "q">>,
      <<"l", ".", "0">>, <<"l", ".", "1", ".", "b">>, <<"l", ".", "3">>,
      <<"l", ".", "x">>, <<"s", ".", "2", ".", "b">>, <<"n", ".", "b">>,
      <<"l", ".", "^2">> }

\* self._get_nested_value(source, path): pathOp.value is what it returned
PathGet(path) ==
    /\ pc = "path"
    /\ pathOp.n < MaxPathOps
    /\ pathOp' = [n |-> pathOp.n + 1, op |-> "get", path |-> path,
                  value |-> _get_nested_value(heap, source_data, path),
                  err |-> GetErr(heap, source_data, path)]
    /\ UNCHANGED <<pc, ctorArg, mappings, _transformers, srcId, source_data, heap, result,
                   child_mappings, ruleIdx, source_array, target_array, idx, err, calls,
                   parked, registered>>

\* the two path functions applied to one document, in any order
GetNext ==
    \/ \E path \in PathPool, value \in PathValues : PathSet(path, value)
    \/ \E path \in GetPool : PathGet(path)

GetSpec == PathInit /\ [][GetNext]_vars

-----------------------------------------------------------------------------
(* C1 *)

\* path p fits the document: the walk of its segments from cur meets only
\* maps and sequences, and a sequence only at a numeric segment; what is
\* absent is still to be created
RECURSIVE Fits(_, _, _, _)
Fits(h, cur, keys, i) ==
    /\ cur.t = "ref"
    /\ IsList(h, cur) => IsDecimal(keys[i])
    /\ i < Len(keys) =>
         IF IsDict(h, cur)
         THEN (keys[i] \in DOMAIN h[cur.a].m
                 => Fits(h, h[cur.a].m[keys[i]], keys, i + 1))
         ELSE (ToInt(keys[i]) < Len(h[cur.a].l)
                 => Fits(h, h[cur.a].l[ToInt(keys[i]) + 1], keys, i + 1))

\* C1: a _set_nested_value(doc, p, v) with a non-empty path p and a
\* non-null v completes, and _get_nested_value(doc, p) is v afterwards.
\* Stated for the paths that fit the document (descending into a scalar,
\* or a key into a sequence, is a programming error of the caller): the
\* paths left run through maps and sequences, existing or still to be
\* created, such as "n.1.b" on the empty document.
C1_RoundTrip ==
    [][(/\ pc = "path"
        /\ pathOp'.path # <<>>
        /\ pathOp'.value # NoneV
        /\ Fits(heap, source_data, Split(pathOp'.path), 1))
       => (/\ pathOp'.err = "none"
           /\ _get_nested_value(heap', source_data, pathOp'.path) = pathOp'.value)]_vars

-----------------------------------------------------------------------------
(* What the claims about transform() speak of.                             *)

Done == pc = "done"
Raised == pc = "raised"

NonChild(i) == ~mappings[i].is_child_mapping
Unregistered(i) == get_transformer(_transformers, mappings[i].transformation).err # "none"

\* the addresses of the source document as it was given
SourceAddrs == 1..Len(SourcePool[srcId])
SourceIntact == \A a \in SourceAddrs : heap[a] = SourcePool[srcId][a]

IsPrefix(a, b) == Len(a) <= Len(b) /\ SubSeq(b, 1, Len(a)) = a
Overlap(p, q) == IsPrefix(Split(p), Split(q)) \/ IsPrefix(Split(q), Split(p))

\* the invocation of the transformer of the non-child rule at position j
OutOf(j) == calls[CHOOSE k \in DOMAIN calls : calls[k].rule = j].out

Max(a, b) == IF a >= b THEN a ELSE b

-----------------------------------------------------------------------------
(* C2 *)

\* C2: when transform() raises for a rule of an unregistered kind, no
\* transformer was invoked and nothing was written into the target.
C2_AllOrNothing ==
    (Raised /\ err = "ValidationError" /\ \E i \in DOMAIN mappings : Unregistered(i))
    => (calls = <<>> /\ heap[result.a] = EmptyDict)

(* C3 *)

\* C3: transform() returns no target document when a rule of the
\* specification, non-child or child, names an unregistered kind.
C3_UnknownKindRaises ==
    (\E i \in DOMAIN mappings : Unregistered(i)) => ~Done

(* C4 *)

\* C4: the only error that escapes transform() is the configuration error
\* (empty specification, unregistered kind).  Stated for the specifications
\* whose transform_config texts are absent, unparsable or JSON objects.
C4_OnlyConfigurationError ==
    (Raised /\ \A i \in DOMAIN mappings :
                  _parse_config(mappings[i].transform_config).k = "dict")
    => err = "ValidationError"

(* C5 *)

\* C5: when transform() has returned, the source document is what it was
\* before the call.
C5_SourceUnchanged == Done => SourceIntact

(* C6 *)

\* no rule applied after the non-child rule at position j writes at its
\* target path, above it or below it
LastWriter(j) ==
    \A k \in DOMAIN mappings :
        /\ (k > j /\ NonChild(k))
              => ~Overlap(mappings[k].target_field, mappings[j].target_field)
        /\ ~NonChild(k)
              => ~Overlap(mappings[k].child_target_path, mappings[j].target_field)

SameTarget(i, j) ==
    /\ i < j /\ NonChild(i) /\ NonChild(j)
    /\ mappings[i].target_field = mappings[j].target_field
    /\ mappings[j].target_field # <<>>
    /\ LastWriter(j)

\* C6: two non-child rules at positions i < j with the same target field,
\* rule j the last to write there: the returned document holds the output
\* of rule j's transformer at that path, a null output included.
C6_LaterRuleWins ==
    Done =>
        \A i, j \in DOMAIN mappings :
            SameTarget(i, j)
              => _get_nested_value(heap, result, mappings[j].target_field) = OutOf(j)

C6_Witness ==
    /\ Done
    /\ \E i, j \in DOMAIN mappings :
          SameTarget(i, j) /\ OutOf(i) # NoneV /\ OutOf(j) = NoneV

(* C7 *)

\* C7: a step of a child rule (its array set-up, one of its rows) leaves
\* the array at the rule's child target path a sequence that has not
\* shrunk and whose rows are the rows it had; after the set-up its length
\* is max(length before, length of the source array).
C7_ChildArrayGrowsOnly ==
    [][(pc \in {"pass2", "rows"} /\ pc' # "raised")
       => LET rule == mappings[child_mappings[ruleIdx]]
              sa == _get_nested_value(heap, source_data, rule.child_source_path)
              before == _get_nested_value(heap, result, rule.child_target_path)
              after == _get_nested_value(heap', result, rule.child_target_path)
          IN (rule.child_target_path # <<>> /\ IsList(heap, sa)
              /\ (before = NoneV \/ IsList(heap, before)))
             => /\ IsList(heap', after)
                /\ pc = "pass2" =>
                     Len(heap'[after.a].l)
                       = Max(IF before = NoneV THEN 0 ELSE Len(heap[before.a].l),
                             Len(heap[sa.a].l))
                /\ before # NoneV =>
                     /\ Len(heap'[after.a].l) >= Len(heap[before.a].l)
                     /\ \A k \in 1..Len(heap[before.a].l) :
                           heap'[after.a].l[k] = heap[before.a].l[k]]_vars

(* C8 *)

\* the invocation c comes before the invocation d in the two-pass order:
\* non-child rules (row -1) in specification order, then child rules in
\* specification order, the rows of one rule in ascending order
Precedes(c, d) ==
    IF c.row < 0 THEN d.row >= 0 \/ c.rule < d.rule
    ELSE d.row >= 0 /\ (c.rule < d.rule \/ (c.rule = d.rule /\ d.row = c.row + 1))

CallsOf(i) == {k \in DOMAIN calls : calls[k].rule = i}

\* C8: the transformer invocations happen in the two-pass order, and a
\* transform() that has returned invoked the transformer once for each
\* non-child rule and once for each row of each child rule over a sequence
\* (the rows counted in the source document as it was given).
C8_TwoPassOrder ==
    /\ \A k \in 1..(Len(calls) - 1) : Precedes(calls[k], calls[k + 1])
    /\ \A k \in DOMAIN calls :
          (calls[k].row < 0) = NonChild(calls[k].rule)
    /\ (Done /\ SourceIntact) =>
          \A i \in DOMAIN mappings :
              LET sa == _get_nested_value(heap, source_data, mappings[i].child_source_path)
              IN Cardinality(CallsOf(i)) =
                    IF NonChild(i) THEN 1
                    ELSE IF IsList(heap, sa) THEN Len(heap[sa.a].l)
                    ELSE 0

C8_Witness ==
    /\ Done /\ SourceIntact
    /\ \E i, j \in DOMAIN mappings :
          /\ i < j /\ ~NonChild(i) /\ NonChild(j)
          /\ Cardinality(CallsOf(i)) >= 2
          /\ \E k \in DOMAIN calls : calls[k].rule = j

(* C9 *)

\* C9: no constructed FieldMapper has an empty rule list.
C9_NoEmptyMapper == pc # "new" => mappings # <<>>

\* C9, for the FieldMapper that __init__ does construct without rules: its
\* transform() raises the configuration error before it creates a target
\* document or invokes a transformer.
C9_EmptyRejectedByTransform ==
    (mappings = <<>> /\ pc \notin {"new", "ready"})
    => (Raised /\ err = "ValidationError" /\ result = NoneV /\ calls = <<>>)

C9_Witness == Raised /\ mappings = <<>> /\ ~ctorArg.given

(* C10 *)

\* C10: every transformer invocation was handed a config map, the empty
\* one unless the rule's transform_config is the text of a JSON object,
\* and no invocation aborted.
C10_BadConfigIsEmpty ==
    \A k \in DOMAIN calls :
        LET text == mappings[calls[k].rule].transform_config
        IN /\ _parse_config(text).k = "dict"
           /\ _parse_config(text) # CfgDict({}) =>
                 (json_loads(text).ok /\ json_loads(text).v.k = "dict")
           /\ calls[k].err = "none"

(* C11 *)

\* C11: when transform() has returned and is called again on the same
\* mapper with the same source document, the second call returns too and
\* the two returned documents are equal.
C11_Deterministic ==
    (parked.pc = "done" /\ pc \in {"done", "raised"})
    => (pc = "done"
        /\ Unfold(heap, result, MaxDepth) = Unfold(heap, parked.result, MaxDepth))

\* the containers a container refers to
RefsOf(h, a) ==
    {h[a].m[x].a : x \in {y \in DOMAIN h[a].m : h[a].m[y].t = "ref"}}
    \cup {h[a].l[i].a : i \in {j \in 1..Len(h[a].l) : h[a].l[j].t = "ref"}}

RECURSIVE Closure(_, _)
Closure(h, seen) ==
    LET more == UNION {RefsOf(h, a) : a \in seen} \ seen
    IN IF more = {} THEN seen ELSE Closure(h, seen \cup more)

\* the containers a call can reach: those of its source document, of its
\* target document and of its two arrays
Owned(h, c) ==
    Closure(h, {v.a : v \in {w \in {c.source_data, c.result, c.source_array,
                                      c.target_array} : w.t = "ref"}})

(* C12 *)

\* the register calls made for a name, and the function of the last of
\* them; without one, what the import installed for the name
RegistrationsOf(name) == {k \in DOMAIN registered : registered[k].name = name}

LastRegistered(name) ==
    IF RegistrationsOf(name) # {}
    THEN registered[CHOOSE k \in RegistrationsOf(name) :
                       \A j \in RegistrationsOf(name) : j <= k].func
    ELSE IF name \in DOMAIN Builtins THEN Builtins[name]
    ELSE "None"

\* C12: get_transformer(name) returns the function of the last register
\* call for the name (a built-in name included), the built-in when the
\* name was registered at import only, and raises just for the names never
\* registered; so no name ever leaves the registry.
C12_LastWriteWins ==
    \A name \in RegNames \cup DOMAIN Builtins \cup {"Never"} :
        get_transformer(_transformers, name)
          = IF LastRegistered(name) = "None"
            THEN [func |-> "None", err |-> "ValidationError"]
            ELSE [func |-> LastRegistered(name), err |-> "none"]

C12_Witness ==
    /\ Len(registered) >= 3
    /\ registered[1].name = "Direct" /\ registered[2].name = "Direct"
    /\ registered[1].func # registered[2].func
    /\ registered[2].func # Builtins["Direct"]
    /\ registered[3].name = "Custom"
    /\ get_transformer(_transformers, "Other").err = "ValidationError"

(* C13 *)

\* the two calls share no container
Disjoint == Owned(heap, Locals) \cap Owned(heap, parked) = {}

\* a step of the running call leaves the containers of the other call, the
\* mapping specification and the registry as they are
StepFrame ==
    /\ \A a \in Owned(heap, parked) : heap'[a] = heap[a]
    /\ mappings # <<>> => mappings' = mappings
    /\ _transformers' = _transformers

\* two calls on equal source documents (two objects) end the same way
SameOutcome ==
    (srcId = parked.srcId /\ pc \in {"done", "raised"} /\ parked.pc \in {"done", "raised"})
    => /\ pc = parked.pc /\ err = parked.err
       /\ pc = "done" =>
             Unfold(heap, result, MaxDepth) = Unfold(heap, parked.result, MaxDepth)

\* C13: two interleaved transform() calls on different source documents
\* share no container, so neither reads the other's target document; no
\* step of one writes a container of the other, the mapping specification
\* or the registry; and on equal source documents the two end with equal
\* results in every interleaving, the one that runs them one after the
\* other included.
C13_Interleaved == [](Disjoint /\ SameOutcome) /\ [][StepFrame]_vars

C13_Witness ==
    /\ pc \in {"pass2", "rows"} /\ parked.pc \in {"pass1", "pass2", "rows"}
    /\ calls # <<>> /\ parked.calls # <<>>
    /\ Owned(heap, Locals) \cap {result.a} # {}
    /\ RefsOf(heap, result.a) \cap Owned(heap, [NoCall EXCEPT !.source_data = source_data]) # {}

-----------------------------------------------------------------------------
(* C14 *)

\* what the child source path of the child rule in turn resolves to
ChildSource ==
    _get_nested_value(heap, source_data, mappings[child_mappings[ruleIdx]].child_source_path)

\* C14: the step of a child rule whose child source path resolves to no
\* list (absent, null, a map or a scalar) changes no object, so the target
\* document is as before and holds no new array, invokes no transformer and
\* raises nothing: transform() goes on with the next child rule or returns.
C14_SkipStep ==
    (pc = "pass2" /\ ~IsList(heap, ChildSource))
        => /\ heap' = heap
           /\ result' = result
           /\ calls' = calls
           /\ err' = "none"
           /\ pc' \in {"pass2", "done"}

C14_NonSequenceSkipped == [][C14_SkipStep]_vars

\* C14: transform() has returned an empty target document from two child
\* rules, one whose child source path is absent or null and one whose
\* child source path holds a map or a scalar
C14_Witness ==
    /\ pc = "done"
    /\ Len(mappings) = 2
    /\ \A i \in 1..2 : mappings[i].is_child_mapping
    /\ \E i \in 1..2 :
          _get_nested_value(heap, source_data, mappings[i].child_source_path) = NoneV
    /\ \E i \in 1..2 :
          LET sa == _get_nested_value(heap, source_data, mappings[i].child_source_path)
          IN sa # NoneV /\ ~IsList(heap, sa)
    /\ heap[result.a] = EmptyDict
    /\ calls = <<>>

-----------------------------------------------------------------------------
(* C15 *)

\* the transformer invocation c met a failure of the resolver
ResolverFailed(c) == \E j \in 1..Len(c.ext) : c.ext[j].answer.err # "none"

\* C15: a failure of the resolver, in get_value or in insert, never leaves
\* the Lookup transformer: the invocation that met it returns the rule's
\* default, and transform() does not raise the resolver's error.
C15_ResolverFailureCaught ==
    /\ err # "ResolverError"
    /\ \A i \in 1..Len(calls) :
          ResolverFailed(calls[i])
              => /\ calls[i].err = "none"
                 /\ calls[i].out = mappings[calls[i].rule].default_value

-----------------------------------------------------------------------------
(* C16 *)

\* the invocations of the Lookup transformer that asked the resolver and
\* got an answer
LookupAnswered ==
    {i \in 1..Len(calls) :
        /\ mappings[calls[i].rule].transformation = "Lookup"
        /\ calls[i].ext # <<>>
        /\ calls[i].ext[1].answer.err = "none"}

\* C16: when the resolver answers a Lookup with no match (None) and the
\* rule does not set create_if_missing, the result is the rule's default
\* and insert is not called; when it answers with the matched document's
\* return-field value, the result is that value.
C16_LookupResult ==
    \A i \in LookupAnswered :
        LET rule == mappings[calls[i].rule]
            answer == calls[i].ext[1].answer.ret
        IN IF answer = NoneV
           THEN "create_if_missing" \notin _parse_config(rule.transform_config).flags
                    => /\ calls[i].out = rule.default_value
                       /\ Len(calls[i].ext) = 1
           ELSE calls[i].out = answer

-----------------------------------------------------------------------------
(* What the claims about one transformer speak of: the rule, the parsed    *)
(* config and the scope of a recorded invocation.                          *)

RuleOf(i) == mappings[calls[i].rule]
ConfigOf(i) == _parse_config(RuleOf(i).transform_config)

\* the source_data the invocation was given: the document, or the row
ScopeOf(i) ==
    IF calls[i].row = -1 THEN source_data
    ELSE heap[_get_nested_value(heap, source_data, RuleOf(i).child_source_path).a].l[
             calls[i].row + 1]

\* the invocations of the transformer kind
KindCalls(kind) == {i \in 1..Len(calls) : RuleOf(i).transformation = kind}

IsEmpty(v) == v = NoneV \/ v = StrV(<<>>)

-----------------------------------------------------------------------------
(* C17 *)

\* the invocations of Default with a value that is there
DefaultWithValue ==
    {i \in KindCalls("Default") : ~IsEmpty(calls[i].value) /\ ConfigOf(i).k = "dict"}

\* what became of the condition of the invocation: "none" when there is
\* none, "error" when its evaluation raised, else "true" or "false"
ConditionOf(i) ==
    LET condition == CfgGet(ConfigOf(i), "condition", NoneV)
        e == py_eval(heap, condition.s, TRUE, calls[i].value, {})
    IN IF ~Truthy(heap, condition) THEN "none"
       ELSE IF condition.t # "str" \/ e.err # "none" THEN "error"
       ELSE IF Truthy(heap, e.v) THEN "true"
       ELSE "false"

\* the default resolution: the config's value, else the field it names,
\* else what its expression evaluates to, else the rule's default
ResolvedDefault(i) ==
    LET m == ConfigOf(i).m
        e == py_eval(heap, m["expression"].s, FALSE, NoneV, {})
    IN CASE "value" \in DOMAIN m -> m["value"]
         [] "value" \notin DOMAIN m /\ "field" \in DOMAIN m ->
                _get_nested_value(heap, ScopeOf(i), m["field"].s)
         [] {"value", "field"} \cap DOMAIN m = {} /\ "expression" \in DOMAIN m ->
                IF e.err = "none" THEN e.v ELSE RuleOf(i).default_value
         [] OTHER -> RuleOf(i).default_value

\* C17 as stated: Default returns a present value when there is no
\* condition or the condition is true, falls through to the default
\* resolution when the condition is false, and returns the value when the
\* condition cannot be evaluated.
C17_ValueUnlessFalse ==
    \A i \in DefaultWithValue :
        calls[i].out = IF ConditionOf(i) = "false" THEN ResolvedDefault(i) ELSE calls[i].value

\* C17 as the code has it: Default returns a present value when there is
\* no condition, when the condition is false and when the condition cannot
\* be evaluated; when the condition is true it falls through to the
\* default resolution.
C17_ValueUnlessTrue ==
    \A i \in DefaultWithValue :
        /\ calls[i].err = "none"
        /\ calls[i].out = IF ConditionOf(i) = "true" THEN ResolvedDefault(i) ELSE calls[i].value

\* C17: transform() has returned after a Default rule whose condition was
\* true for a present value, and the target holds the resolved default,
\* which is not the value
C17_Witness ==
    /\ pc = "done"
    /\ \E i \in DefaultWithValue :
          /\ ConditionOf(i) = "true"
          /\ calls[i].out = ResolvedDefault(i)
          /\ calls[i].out # calls[i].value
          /\ calls[i].row = -1
          /\ _get_nested_value(heap, result, RuleOf(i).target_field) = calls[i].out

-----------------------------------------------------------------------------
(* C18 *)

\* the pairs of the Conditional invocation i
PairsOf(i) == CfgGet(ConfigOf(i), "conditions", <<>>)

\* the `if` of pair j of invocation i evaluates, and to something true
IfTrue(i, j) ==
    LET if_expr == PairGet(PairsOf(i)[j], "if", StrV(<<>>))
        c == py_eval(heap, if_expr.s, TRUE, calls[i].value, ConditionalFuncs)
    IN if_expr.t = "str" /\ c.err = "none" /\ Truthy(heap, c.v)

\* what invocation i yields when no pair decides: the configured
\* else-value, or the rule's default
ElseOf(i) == CfgGet(ConfigOf(i), "else", RuleOf(i).default_value)

\* the `then` of pair j: what it evaluates to when eval_then is set and it
\* is a text, itself otherwise; the pair decides nothing when that
\* evaluation fails
ThenOf(i, j) ==
    LET then_value == PairGet(PairsOf(i)[j], "then", NoneV)
        t == py_eval(heap, then_value.s, TRUE, calls[i].value, ConditionalFuncs)
    IN IF "eval_then" \in ConfigOf(i).flags /\ then_value.t = "str"
       THEN (IF t.err = "none" THEN t.v ELSE ElseOf(i))
       ELSE then_value

\* C18: a Conditional invocation never raises; its result is the `then`
\* of the first pair whose `if` evaluates true, whatever the pairs after
\* it are, and the else-value (or the rule's default) when no `if` does.
C18_FirstTrueWins ==
    \A i \in KindCalls("Conditional") :
        ConfigOf(i).k = "dict" =>
            LET true == {j \in 1..Len(PairsOf(i)) : IfTrue(i, j)}
                first == CHOOSE j \in true : \A k \in true : j <= k
            IN /\ calls[i].err = "none"
               /\ calls[i].out = IF true = {} THEN ElseOf(i) ELSE ThenOf(i, first)

-----------------------------------------------------------------------------
(* C19 *)

EmptinessKinds == {"Direct", "Lookup", "Cast", "Split", "Regex"}

\* the invocations of these kinds that were handed no value: None, which
\* is what a path that is absent or holds null extracts to, or ""
HandedNothing ==
    {i \in 1..Len(calls) :
        RuleOf(i).transformation \in EmptinessKinds /\ IsEmpty(calls[i].value)}

\* C19: a Direct, Lookup, Cast, Split or Regex invocation that is handed
\* None or "" returns the rule's default as it is, neither cast nor
\* otherwise changed, raises nothing and does not ask the resolver.
C19_EmptyYieldsDefault ==
    \A i \in HandedNothing :
        /\ calls[i].out = RuleOf(i).default_value
        /\ calls[i].err = "none"
        /\ calls[i].ext = <<>>

\* C19: transform() has returned after a Cast to int with the default "1"
\* met an empty text and an absent field, each row holding the text "1",
\* and after a Lookup met a null without asking the resolver
C19_Witness ==
    /\ pc = "done"
    /\ \E i, j \in KindCalls("Cast") :
          /\ calls[i].rule = calls[j].rule
          /\ CfgGet(ConfigOf(i), "type", NoneV) = StrV(<<"i", "n", "t">>)
          /\ calls[i].value = StrV(<<>>)
          /\ calls[j].value = NoneV
          /\ calls[i].out = StrV(<<"1">>)
          /\ calls[j].out = StrV(<<"1">>)
    /\ \E i \in KindCalls("Lookup") :
          /\ calls[i].value = NoneV
          /\ Truthy(heap, CfgGet(ConfigOf(i), "doctype", NoneV))
          /\ calls[i].ext = <<>>
          /\ calls[i].out = RuleOf(i).default_value

-----------------------------------------------------------------------------
(* C20 *)

\* the entries of the mapping of Map invocation i whose key is the
\* stringified value, both lowered when the rule is case-insensitive
EntriesFor(i) ==
    LET entries == CfgGet(ConfigOf(i), "mapping", <<>>)
        fold(t) == IF "case_insensitive" \in ConfigOf(i).flags THEN StrLower(t) ELSE t
    IN {entries[j][2] : j \in {k \in 1..Len(entries) :
                                  fold(entries[k][1]) = fold(cstr(calls[i].value))}}

\* C20: a Map invocation returns the rule's default for None and for a
\* value that has no entry, and an entry for the value otherwise.
C20_MapOrDefault ==
    \A i \in KindCalls("Map") :
        ConfigOf(i).k = "dict" =>
            /\ calls[i].err = "none"
            /\ IF calls[i].value = NoneV \/ EntriesFor(i) = {}
               THEN calls[i].out = RuleOf(i).default_value
               ELSE calls[i].out \in EntriesFor(i)

\* C20: transform() has returned after a case-insensitive Map rule with
\* the key "paid" met the value "PAID", and the target holds "Paid"
C20_Witness ==
    /\ pc = "done"
    /\ \E i \in KindCalls("Map") :
          /\ calls[i].value = StrV(<<"P", "A", "I", "D">>)
          /\ "case_insensitive" \in ConfigOf(i).flags
          /\ EntriesFor(i) = {StrV(<<"P", "a", "i", "d">>)}
          /\ calls[i].out = StrV(<<"P", "a", "i", "d">>)
          /\ _get_nested_value(heap, result, RuleOf(i).target_field) = calls[i].out

-----------------------------------------------------------------------------
(* C21 *)

\* what the segments keys[i..] address from cur: a map is entered by its
\* key and a sequence by an index within its length; a missing key, an
\* index out of range, a segment on a sequence that is no number, and a
\* scalar or null before the last segment address nothing (None)
RECURSIVE Addressed(_, _, _, _)
Addressed(h, cur, keys, i) ==
    IF i > Len(keys) THEN cur
    ELSE IF IsDict(h, cur) /\ keys[i] \in DOMAIN h[cur.a].m
    THEN Addressed(h, h[cur.a].m[keys[i]], keys, i + 1)
    ELSE IF IsList(h, cur) /\ IsDecimal(keys[i]) /\ ToInt(keys[i]) < Len(h[cur.a].l)
    THEN Addressed(h, h[cur.a].l[ToInt(keys[i]) + 1], keys, i + 1)
    ELSE NoneV

AddressedAt(h, data, path) ==
    IF path = <<>> THEN NoneV ELSE Addressed(h, data, Split(path), 1)

\* C21: a call of _get_nested_value raises nothing, leaves every object
\* as it was, and returns the addressed value, None when the path
\* addresses nothing or is empty.
C21_GetStep ==
    (pathOp'.n = pathOp.n + 1 /\ pathOp'.op = "get")
        => /\ pathOp'.err = "none"
           /\ heap' = heap
           /\ pathOp'.value = AddressedAt(heap, source_data, pathOp'.path)

C21_GetNeverRaises == [][C21_GetStep]_vars

-----------------------------------------------------------------------------
(* C22 *)

\* the child rule whose rows are being processed, and element i of its
\* source and of its target array
RowRule == mappings[child_mappings[ruleIdx]]
SourceRow(h, i) == h[source_array.a].l[i + 1]
TargetRow(h, i) == h[target_array.a].l[i + 1]

\* the record of the invocation for row i of the rule being processed
RowCall(cs, i) ==
    cs[CHOOSE k \in 1..Len(cs) : cs[k].rule = child_mappings[ruleIdx] /\ cs[k].row = i]

\* what the transformer of the rule returns for source element i: the
\* value at the source field relative to the element, the element as scope
RowResults(h, i) ==
    {Invoke(get_transformer(_transformers, RowRule.transformation).func, h,
            _get_nested_value(h, SourceRow(h, i), RowRule.source_field),
            _parse_config(RowRule.transform_config), RowRule.default_value,
            SourceRow(h, i), env).out :
        env \in ResolverEnvs(get_transformer(_transformers, RowRule.transformation).func)}

\* C22, one row: a completed round of the row loop for index idx puts at
\* the target field of target row idx what the transformer returns for
\* source element idx with that element as scope, and leaves the other
\* fields of the row and all other rows of the target array as they were.
C22_RowStep ==
    (pc = "rows" /\ pc' # "raised")
        => /\ RowCall(calls', idx).out \in RowResults(heap, idx)
           /\ _get_nested_value(heap', TargetRow(heap, idx), RowRule.target_field)
                  = RowCall(calls', idx).out
           /\ IsDict(heap, TargetRow(heap, idx)) =>
                  \A key \in DOMAIN heap[TargetRow(heap, idx).a].m :
                      key # Split(RowRule.target_field)[1]
                          => heap'[TargetRow(heap, idx).a].m[key]
                                 = heap[TargetRow(heap, idx).a].m[key]
           /\ Len(heap'[target_array.a].l) = Len(heap[target_array.a].l)
           /\ \A j \in 0..(Len(heap[target_array.a].l) - 1) :
                  j # idx => /\ TargetRow(heap', j) = TargetRow(heap, j)
                             /\ TargetRow(heap, j).t = "ref"
                                    => heap'[TargetRow(heap, j).a] = heap[TargetRow(heap, j).a]

\* C22, the rule: when the last row of a child rule is done, every target
\* row i below the length of the source array holds at the target field
\* what the transformer returned for source element i.
C22_RuleDone ==
    (pc = "rows" /\ pc' \in {"pass2", "done"})
        => \A i \in 0..idx :
               _get_nested_value(heap', TargetRow(heap', i), RowRule.target_field)
                   = RowCall(calls', i).out

C22_ChildRows == [][C22_RowStep /\ C22_RuleDone]_vars

-----------------------------------------------------------------------------
(* C23 *)

\* the kinds of the claim that the model has (Formula is not modelled)
GuardedKinds == {"Cast", "Default", "Split", "Regex", "Conditional"}

\* the invocations of those kinds
GuardedCalls == UNION {KindCalls(kind) : kind \in GuardedKinds}

\* C23: no invocation of Cast, Default, Split, Regex or Conditional ends
\* with an exception; each returns a value, whatever value and config map
\* it was given.
C23_NoFailureEscapes == \A i \in GuardedCalls : calls[i].err = "none"

-----------------------------------------------------------------------------
(* C24 *)

\* the container a completed set has reached before the last segment
RECURSIVE Reached(_, _, _, _)
Reached(h, cur, keys, i) ==
    IF i >= Len(keys) THEN cur ELSE Reached(h, h[cur.a].m[keys[i]], keys, i + 1)

\* the elements a list had before the step; none when the step created it
ElementsBefore(c) == IF c.a <= Len(heap) THEN heap[c.a].l ELSE <<>>

\* C24: when a completed set reaches a sequence of length L before the
\* last segment and the last segment is the decimal index k, the sequence
\* has length max(L, k + 1) afterwards, its element k is the value
\* assigned, its elements below min(L, k) are the ones it had, and each
\* element at an index in [L, k) is a new empty map of its own.
C24_GrowthStep ==
    (pathOp'.n = pathOp.n + 1 /\ pathOp'.op = "set" /\ pathOp'.err = "none"
        /\ pathOp'.path # <<>>)
        => LET keys == Split(pathOp'.path)
               c == Reached(heap', source_data, keys, 1)
               k == ToInt(keys[Len(keys)])
               before == ElementsBefore(c)
               L == Len(before)
               after == heap'[c.a].l
           IN (IsList(heap', c) /\ IsDecimal(keys[Len(keys)]))
                 => /\ Len(after) = Max(L, k + 1)
                    /\ after[k + 1] = pathOp'.value
                    /\ \A i \in 0..(L - 1) : i < k => after[i + 1] = before[i + 1]
                    /\ \A i \in L..(k - 1) :
                          /\ after[i + 1].t = "ref"
                          /\ after[i + 1].a > Len(heap)
                          /\ heap'[after[i + 1].a] = EmptyDict
                          /\ \A j \in L..(k - 1) : after[j + 1] = after[i + 1] => j = i

C24_FinalSegmentGrowth == [][C24_GrowthStep]_vars

\* C24: the set of "l.3" has grown a list of two rows to four elements, the
\* third a new empty map and the fourth the value assigned
C24_Witness ==
    /\ pathOp.op = "set"
    /\ pathOp.err = "none"
    /\ pathOp.path = <<"l", ".", "3">>
    /\ pathOp.value = StrV(<<"v">>)
    /\ LET l == heap[heap[source_data.a].m[<<"l">>].a].l
       IN /\ Len(l) = 4
          /\ l[1] = RefV(4)
          /\ l[3].t = "ref"
          /\ heap[l[3].a] = EmptyDict
          /\ l[4] = StrV(<<"v">>)

-----------------------------------------------------------------------------
(* C25.  The specification of termination: rule lists in which the target  *)
(* array of a child rule is its source array (the Direct rules store rows  *)
(* and the array of the source in the target), with target fields that     *)
(* lead from a row back to the array and grow it while the row loop runs.  *)
(* The interpreter takes every step of the running call: weak fairness of  *)
(* Next.                                                                   *)

TermPool ==
    << ChildRule(<<"l">>, <<"t", ".", "x">>, <<"b">>, <<"x", ".", "3">>, "Direct",
                 CfgNone, NoneV),
       Rule(<<"l", ".", "0">>, <<"t">>, "Direct", CfgNone, NoneV),
       Rule(<<"l">>, <<"t", ".", "x">>, "Direct", CfgNone, NoneV),
       Rule(<<"l">>, <<"r">>, "Direct", CfgNone, NoneV),
       ChildRule(<<"l">>, <<"r">>, <<"b">>, <<"c">>, "Direct", CfgNone, NoneV),
       ChildRule(<<"s">>, <<"r">>, <<"b">>, <<"b">>, "Direct", CfgNone, StrV(<<"d">>)) >>

\* the rules of the pool at the positions in S, in the order of the pool
RECURSIVE Chosen(_, _)
Chosen(S, i) ==
    IF i > Len(TermPool) THEN <<>>
    ELSE (IF i \in S THEN <<TermPool[i]>> ELSE <<>>) \o Chosen(S, i + 1)

TermLists == {Chosen(S, 1) : S \in SUBSET (1..Len(TermPool))}

TermInit ==
    /\ pc = "new"
    /\ ctorArg \in {[given |-> TRUE, rules |-> r] : r \in TermLists}
    /\ mappings = <<>>
    /\ _transformers = Builtins
    /\ srcId \in 1..Len(SourcePool)
    /\ source_data = RefV(1)
    /\ heap = SourcePool[srcId]
    /\ result = NoneV
    /\ child_mappings = <<>>
    /\ ruleIdx = 0
    /\ source_array = NoneV
    /\ target_array = NoneV
    /\ idx = 0
    /\ err = "none"
    /\ calls = <<>>
    /\ pathOp = NoPathOp
    /\ parked = NoCall
    /\ registered = <<>>

TermSpec == TermInit /\ [][Next]_vars /\ WF_vars(Next)

\* transform() has returned the target document, or has raised
Returned == pc \in {"done", "raised"}

\* no rule is applied twice and no row of a child rule is processed twice
AppliedOnce ==
    \A i, j \in 1..Len(calls) :
        (calls[i].rule = calls[j].rule /\ calls[i].row = calls[j].row) => i = j

\* C25: transform() eventually returns the target document or raises, and
\* on the way no rule is applied more than once and no row of a child rule
\* is processed more than once, also when the target array of a child rule
\* is its source array.
C25_Terminates == <>Returned /\ []AppliedOnce

\* C25: transform() has returned after a child rule whose target array is
\* its source array has processed the rows of that array
C25_Witness ==
    /\ pc = "done"
    /\ target_array.t = "ref"
    /\ target_array = source_array
    /\ \E i, j \in 1..Len(calls) :
          /\ calls[i].rule = calls[j].rule
          /\ calls[i].row = 0
          /\ calls[j].row = 1

-----------------------------------------------------------------------------
(* C26.  The specification of the empty path: the two path functions on a  *)
(* document, and transform() with rules whose target field is empty.       *)

EmptyPaths == {<<>>, <<"a">>, <<"l", ".", "3">>, <<"n", ".", "b">>}

EmptyRules ==
    << Rule(<<"a">>, <<>>, "Direct", CfgNone, NoneV),
       Rule(<<"m">>, <<>>, "Direct", "{}", StrV(<<"d">>)),
       Rule(<<"m">>, <<"t">>, "Direct", CfgNone, NoneV),
       ChildRule(<<"l">>, <<"r">>, <<"b">>, <<>>, "Direct", CfgNone, NoneV) >>

EmptyLists(n) ==
    {[i \in 1..n |-> EmptyRules[f[i]]] : f \in [1..n -> 1..Len(EmptyRules)]}

EmptyInit ==
    \/ PathInit
    \/ /\ pc = "new"
       /\ ctorArg \in {[given |-> TRUE, rules |-> r] :
                           r \in UNION {EmptyLists(n) : n \in 1..MaxRules}}
       /\ mappings = <<>>
       /\ _transformers = Builtins
       /\ srcId = 1
       /\ source_data = RefV(1)
       /\ heap = SourcePool[srcId]
       /\ result = NoneV
       /\ child_mappings = <<>>
       /\ ruleIdx = 0
       /\ source_array = NoneV
       /\ target_array = NoneV
       /\ idx = 0
       /\ err = "none"
       /\ calls = <<>>
       /\ pathOp = NoPathOp
       /\ parked = NoCall
       /\ registered = <<>>

EmptyNext ==
    \/ Next
    \/ \E path \in EmptyPaths, value \in PathValues : PathSet(path, value)
    \/ \E path \in EmptyPaths : PathGet(path)

EmptySpec == EmptyInit /\ [][EmptyNext]_vars

\* the step is the call of a path function with the empty path
EmptyPathOp(op) == pathOp'.n = pathOp.n + 1 /\ pathOp'.op = op /\ pathOp'.path = <<>>

\* the step is the write of a non-child rule with an empty target field,
\* after the rule's transformer has returned
EmptyTargetWrite ==
    /\ pc = "pass1"
    /\ ~mappings[ruleIdx].is_child_mapping
    /\ mappings[ruleIdx].target_field = <<>>
    /\ Len(calls') = Len(calls) + 1
    /\ calls'[Len(calls')].err = "none"

\* C26: a get with the empty path returns None, a set with the empty path
\* leaves every object as it was, neither raises; the write of a non-child
\* rule with an empty target field raises nothing, leaves every object of
\* the target document as it was and transform() goes on.
C26_EmptyStep ==
    /\ EmptyPathOp("get") =>
          pathOp'.value = NoneV /\ pathOp'.err = "none" /\ heap' = heap
    /\ EmptyPathOp("set") => pathOp'.err = "none" /\ heap' = heap
    /\ EmptyTargetWrite =>
          /\ pc' # "raised"
          /\ err' = "none"
          /\ heap' = heap
          /\ result' = result

C26_EmptyPathInert == [][C26_EmptyStep]_vars

\* C26: transform() has returned an empty target document after two rules
\* with an empty target field were applied
C26_Witness ==
    /\ pc = "done"
    /\ Len(calls) = 2
    /\ \A i \in 1..2 : /\ ~RuleOf(i).is_child_mapping
                        /\ RuleOf(i).target_field = <<>>
                        /\ calls[i].err = "none"
    /\ calls[2].out = RefV(2)
    /\ heap[result.a] = EmptyDict
    /\ heap = Append(SourcePool[srcId], EmptyDict)

-----------------------------------------------------------------------------
(* C27.  The specification of the frame: transform() over rule lists that  *)
(* write a value of the source at two target fields and then below one of  *)
(* them.                                                                   *)

FrameRules ==
    << Rule(<<"m">>, <<"t">>, "Direct", CfgNone, NoneV),
       Rule(<<"m">>, <<"u">>, "Direct", CfgNone, NoneV),
       Rule(<<"a">>, <<"t", ".", "b">>, "Direct", CfgNone, NoneV),
       Rule(<<"a">>, <<"x", ".", "1">>, "Direct", CfgNone, NoneV),
       ChildRule(<<"l">>, <<"r">>, <<"b">>, <<"c">>, "Direct", CfgNone, NoneV) >>

FrameLists(n) ==
    {[i \in 1..n |-> FrameRules[f[i]]] : f \in [1..n -> 1..Len(FrameRules)]}

FrameInit ==
    /\ pc = "new"
    /\ ctorArg \in {[given |-> TRUE, rules |-> r] :
                        r \in UNION {FrameLists(n) : n \in 1..MaxRules}}
    /\ mappings = <<>>
    /\ _transformers = Builtins
    /\ srcId = 1
    /\ source_data = RefV(1)
    /\ heap = SourcePool[srcId]
    /\ result = NoneV
    /\ child_mappings = <<>>
    /\ ruleIdx = 0
    /\ source_array = NoneV
    /\ target_array = NoneV
    /\ idx = 0
    /\ err = "none"
    /\ calls = <<>>
    /\ pathOp = NoPathOp
    /\ parked = NoCall
    /\ registered = <<>>

FrameSpec == FrameInit /\ [][Next]_vars

\* what get returns at path q of the target document, as a tree
TargetAt(h, q) == Unfold(h, _get_nested_value(h, result, q), MaxDepth)

\* C27: the write of a non-child rule leaves what get returns at the
\* target field of every earlier non-child rule as it was, when neither of
\* the two target fields is a prefix of the other.
C27_RuleStep ==
    (pc = "pass1" /\ pc' # "raised" /\ ~mappings[ruleIdx].is_child_mapping)
        => \A j \in 1..(ruleIdx - 1) :
               (/\ ~mappings[j].is_child_mapping
                /\ ~Overlap(mappings[j].target_field, mappings[ruleIdx].target_field))
                  => TargetAt(heap', mappings[j].target_field)
                         = TargetAt(heap, mappings[j].target_field)

C27_SetFrame == [][C27_RuleStep]_vars

====
